---- MODULE Spec2Model ----
(***************************************************************************)
(* Model of the Tell-A-Vision streaming server.                            *)
(*                                                                         *)
(* The asyncio program made of                                             *)
(*   src/src/python/websocket_handler.py  (WebSocketHandler),              *)
(*   src/src/python/main.py               (main, run_calibration),         *)
(*   src/src/python/startup_calibration_async.py (AsyncCalibrator),        *)
(* with the capture thread of src/utils/frame_processor.py reduced to the  *)
(* publication of encoded payloads.                                        *)
(*                                                                         *)
(* asyncio runs one task at a time; a task runs from one await to the next *)
(* without interruption.  Every action below is one such run.  A           *)
(* websocket.send() hands the message to the transport when it is called   *)
(* (or raises at once on a closed connection) and then suspends the task   *)
(* until the write has drained; if the connection is lost meanwhile, the   *)
(* task is resumed with the exception.                                     *)
(***************************************************************************)
EXTENDS Integers, Sequences, FiniteSets, TLC

\* ---------------------------------------------------------------- bounds
NClients == 2        \* websocket connections ever made (each object connects once)
MaxFrames == 2       \* `frame` messages counted per connection
MaxCapture == 2      \* capture-loop iterations that acquire a frame

Clients == 1..NClients
None == "None"

\* ------------------------------------------------------------- variables
VARIABLES
  \* WebSocketHandler fields
  connected_clients,      \* self.connected_clients
  first_connection,       \* self.first_connection
  calibration_settings,   \* self.calibration_settings: None or the settings object
  frame_processor,        \* self.frame_processor: None or "started"
  \* per connection: the handle_client coroutine and its _handle_stream tasks
  hpc,                    \* position of handle_client(websocket)
  alive,                  \* the transport of the connection is open
  streams,                \* tasks created for _handle_stream, stream_task is the last
  \* startup_calibration_async module and main module globals
  calibrator,             \* _calibrator: None or the AsyncCalibrator's fields
  cal_file,               \* last_calibration.json: None or its content
  calpc,                  \* position of the run_calibration task
  main_settings,          \* main.calibration_settings
  calibration_ready_event,
  mainpc,                 \* position of main()
  \* the broadcast_calibration task
  bpc, bsnap, bvisited, bcur, bdisc, bmessage,
  \* FrameProcessor
  frame_counter, latest_encoded_frame,
  cappc,                  \* position of the _process_loop thread
  running,                \* FrameProcessor.running
  camera,                 \* the cv2.VideoCapture: "none", "opened", "unopened", "released"
  latest_hand_data, latest_ball_data,
  \* HandTracker: the detector's last answer and what process made of it
  hand_impl, hand_enabled, multi_hand_landmarks, multi_handedness, hand_data, hand_raised,
  \* BallTracker.detect: the contours found per ball id and the detections
  ball_enabled, contours, detected, detect_done,
  \* detect_balls of server.py: position smoothing (one coordinate)
  raw_position, last_ball_position, start_position, same_frames,
  ball_impl,              \* "server": detect_balls of server.py, "utils": BallTracker.detect
  ball_inputs,            \* per frame, whether the ball was accepted and where
  ball_outputs,           \* per frame, what the detection list holds for the ball
  \* NVENCEncoder / JPEGEncoder
  encoder_class, use_nvenc, nvenc_encoder, encode_errors, encoded_payloads,
  \* what went over the wire, and what happened when (history)
  reqMsgs, calMsgs, errMsgs, frameMsgs, calData,
  acceptedWhen, firstAccepted, triggered,
  sentFrames,             \* per connection, the content of the `frame` messages
  firstChoice,            \* the first calibration_choice a handler received
  lateStart,              \* per connection: a start_stream was read after its send loop had ended
  branchTaken             \* the branch quick_calibrate took

vars == <<connected_clients, first_connection, calibration_settings, frame_processor,
          hpc, alive, streams, calibrator, cal_file, calpc, main_settings,
          calibration_ready_event, mainpc, bpc, bsnap, bvisited, bcur, bdisc, bmessage,
          frame_counter, latest_encoded_frame, cappc, running, camera,
          latest_hand_data, latest_ball_data,
          hand_impl, hand_enabled, multi_hand_landmarks, multi_handedness, hand_data,
          hand_raised, ball_enabled, contours, detected, detect_done,
          raw_position, last_ball_position, start_position, same_frames,
          ball_impl, ball_inputs, ball_outputs,
          encoder_class, use_nvenc, nvenc_encoder, encode_errors, encoded_payloads,
          reqMsgs, calMsgs, errMsgs, frameMsgs, calData,
          acceptedWhen, firstAccepted, triggered, sentFrames, firstChoice, branchTaken,
          lateStart>>

handlerVars == <<connected_clients, first_connection, calibration_settings, frame_processor>>
connVars == <<hpc, alive, streams>>
calVars == <<calibrator, cal_file, calpc, main_settings, calibration_ready_event, mainpc>>
bcastVars == <<bpc, bsnap, bvisited, bcur, bdisc, bmessage>>
lifeVars == <<running, camera>>
trackVars == <<cappc, latest_hand_data, latest_ball_data, lifeVars>>
handVars == <<hand_impl, hand_enabled, multi_hand_landmarks, multi_handedness, hand_data,
              hand_raised>>
ballVars == <<ball_enabled, contours, detected, detect_done>>
seqVars == <<ball_impl, ball_inputs, ball_outputs>>
smoothVars == <<raw_position, last_ball_position, start_position, same_frames, seqVars>>
encVars == <<encoder_class, use_nvenc, nvenc_encoder, encode_errors, encoded_payloads>>
toolVars == <<handVars, ballVars, smoothVars, encVars>>
captureVars == <<frame_counter, latest_encoded_frame, trackVars, toolVars>>
wireVars == <<reqMsgs, calMsgs, errMsgs, frameMsgs, calData>>
choiceVars == <<firstChoice, branchTaken, lateStart>>
histVars == <<acceptedWhen, firstAccepted, triggered, sentFrames, choiceVars>>


\* ---------------------------------------------- AsyncCalibrator (values)
\* A profile is {camera_settings, hsv_ranges}.  camera_settings is named by
\* where its content comes from; hsv_ranges is a dict from ball ids to ranges,
\* each range named by where it comes from ("preset", "file", "picked").  In
\* the calibrator the keys are integers, in last_calibration.json they are
\* strings (JSON object keys).
NumBalls == 2        \* num_balls of the calibrator
MaxBallId == 2       \* largest ball id a file may hold

EmptyDict == [k \in {} |-> None]
\* str(k) and int(s) for ball ids
Decimal == <<"0", "1", "2">>
str(k) == Decimal[k + 1]
int(key) == CHOOSE k \in 0..MaxBallId : Decimal[k + 1] = key

NoProfile == [camera_settings |-> None, hsv_ranges |-> EmptyDict]
NoFile == [exists |-> FALSE, camera_settings |-> None, hsv_ranges |-> EmptyDict]
\* a file written by a run with NumBalls balls, and one written for one ball
SavedFile == [exists |-> TRUE, camera_settings |-> "file",
              hsv_ranges |-> [key \in {str(k) : k \in 0..(NumBalls - 1)} |-> "file"]]
OneBallFile == [exists |-> TRUE, camera_settings |-> "file",
                hsv_ranges |-> [key \in {str(0)} |-> "file"]]
NoCalibrator == [exists |-> FALSE, camera_settings |-> None, hsv_ranges |-> EmptyDict,
                 user_choice |-> None, choice_received |-> FALSE]

\* lines 34-42: a preset (or the wide default range) for every id below num_balls
Presets == [k \in 0..(NumBalls - 1) |-> "preset"]

\* load_last that reads the file's ranges for the ids below num_balls only
load_last_known_ids(cal, file) ==
  IF file.exists
  THEN [cal EXCEPT !.camera_settings = file.camera_settings,
                   !.hsv_ranges =
                      [k \in DOMAIN cal.hsv_ranges |->
                         IF str(k) \in DOMAIN file.hsv_ranges
                         THEN file.hsv_ranges[str(k)]
                         ELSE cal.hsv_ranges[k]]]
  ELSE cal

\* load_last: the file's camera_settings replace the current ones, and
\* hsv_ranges[int(k)] = v for every entry of the file's hsv_ranges
load_last(cal, file) ==
  IF file.exists
  THEN [cal EXCEPT !.camera_settings = file.camera_settings,
                   !.hsv_ranges =
                      [k \in DOMAIN cal.hsv_ranges \cup {int(key) : key \in DOMAIN file.hsv_ranges} |->
                         IF str(k) \in DOMAIN file.hsv_ranges
                         THEN file.hsv_ranges[str(k)]
                         ELSE cal.hsv_ranges[k]]]
  ELSE cal

\* __init__ without the load_last at its end
NewCalibratorFromPresets(file) ==
  [exists |-> TRUE, camera_settings |-> "device", hsv_ranges |-> Presets,
   user_choice |-> None, choice_received |-> FALSE]

\* __init__: the camera's current values, the hard-coded presets, then load_last
NewCalibrator(file) ==
  load_last([exists |-> TRUE, camera_settings |-> "device", hsv_ranges |-> Presets,
             user_choice |-> None, choice_received |-> FALSE], file)

\* set_choice that also puts the ranges back to the presets
set_choice_resets(cal, use_last) ==
  [cal EXCEPT !.user_choice = IF use_last THEN "use_last" ELSE "calibrate",
              !.choice_received = TRUE,
              !.hsv_ranges = Presets]

\* line 102: the word a choice is recorded as
ChoiceOf(use_last) == IF use_last THEN "use_last" ELSE "calibrate"

\* quick_calibrate 198-206: the branch of a choice; the test that sends
\* "use_last" straight to the end of the calibration
BranchSkipsReusing(choice) == IF choice = "use_last" THEN "done" ELSE "calibrating"

\* quick_calibrate 198-206 (the wait has returned, so the choice is one of
\* the two words set_choice writes)
Branch(choice) == IF choice = "use_last" THEN "reusing" ELSE "calibrating"

set_choice(cal, use_last) ==
  [cal EXCEPT !.user_choice = IF use_last THEN "use_last" ELSE "calibrate",
              !.choice_received = TRUE]

\* set_calibration_choice: does nothing while no calibrator exists
set_calibration_choice(cal, use_last) ==
  IF cal.exists THEN set_choice(cal, use_last) ELSE cal

\* apply_cam: the settings are written to the camera and read back; the driver
\* answers with the value asked for or with its own
Readbacks(requested) == {requested, "device"}
apply_cam(cal, readback) == [cal EXCEPT !.camera_settings = readback]

\* calibrate_balls_interactive: for every id below num_balls the operator
\* leaves the range or replaces it by the picked one; then save()
PickedRanges(current) ==
  {r \in [DOMAIN current -> {"preset", "file", "picked"}] :
     \A k \in DOMAIN current :
       r[k] = current[k] \/ (k < NumBalls /\ r[k] = "picked")}

\* a save that writes nothing
save_nothing(cal) == NoFile

\* save: camera_settings and {str(k): v for k, v in hsv_ranges.items()}
save(cal) == [exists |-> TRUE, camera_settings |-> cal.camera_settings,
              hsv_ranges |-> [key \in {str(k) : k \in DOMAIN cal.hsv_ranges} |->
                                cal.hsv_ranges[int(key)]]]

\* get_settings: a new dict holding the calibrator's own two dicts
get_settings(cal) == [camera_settings |-> cal.camera_settings,
                      hsv_ranges |-> cal.hsv_ranges]

\* self.calibration_settings is None or that dict, whose content is the
\* calibrator's current content; json.dumps reads it when it is called
SettingsValue == get_settings(calibrator)

\* ------------------------------------------------------------ HandTracker
\* A hand of the detector's answer is the sequence of its landmarks, each
\* landmark one coordinate (x, y and z go through the same expressions); the
\* hand data maps a side to {detected, position, landmarks}.  Coordinates are
\* even numbers, so that the mean of one or two of them is exact.
\* (utils/hand_tracking.py names the entries right_hand_detected,
\* right_hand_landmarks, ...; src/python/hand_tracking.py nests them under
\* 'right' and 'left'.)
NoHand == [detected |-> FALSE, position |-> 0, landmarks |-> <<>>]

\* _empty_hand_data
empty_hand_data == [side \in {"left", "right"} |-> NoHand]

\* a hand reported as detected without its landmarks
HandDataBare(n) == [detected |-> TRUE, position |-> 0, landmarks |-> <<>>]

RECURSIVE SumSeq(_)
SumSeq(q) == IF q = <<>> THEN 0 ELSE q[1] + SumSeq(Tail(q))

\* the coordinate of the first landmark
hand_center_first(landmarks) == landmarks[1]

\* sum(xs) / len(xs), for a hand that has landmarks
hand_center(landmarks) == SumSeq(landmarks) \div Len(landmarks)

\* data = {'detected': True, 'position': center, 'landmarks': landmarks}
HandData(n) == [detected |-> TRUE, position |-> hand_center(n), landmarks |-> n]

\* The loop over the hands from the k-th on; acc is [raised, data].  The
\* average sum(xs) / len(xs) raises ZeroDivisionError for a hand without
\* landmarks.  hands and labels have the same length here.
RECURSIVE HandLoop(_, _, _, _)
HandLoop(hands, labels, k, acc) ==
  IF k > Len(hands) THEN acc
  ELSE IF hands[k] = <<>> THEN [raised |-> TRUE, data |-> acc.data]
  ELSE HandLoop(hands, labels, k + 1,
                [raised |-> FALSE,
                 data |-> [acc.data EXCEPT ![IF labels[k] = "Right" THEN "right" ELSE "left"]
                                             = HandData(hands[k])]])

Min(a, b) == IF a < b THEN a ELSE b

\* utils/hand_tracking.py 32-71: zip() stops at the shorter list
process_utils(enabled, hands, labels) ==
  IF ~enabled THEN [raised |-> FALSE, data |-> empty_hand_data]
  ELSE IF hands # <<>> /\ labels # <<>>
  THEN LET n == Min(Len(hands), Len(labels))
       IN HandLoop(SubSeq(hands, 1, n), SubSeq(labels, 1, n), 1,
                   [raised |-> FALSE, data |-> empty_hand_data])
  ELSE [raised |-> FALSE, data |-> empty_hand_data]

\* src/python/hand_tracking.py 54-105: handedness[idx] raises IndexError when
\* the handedness list is shorter than the list of hands
process_tasks(enabled, hands, labels) ==
  IF ~enabled THEN [raised |-> FALSE, data |-> empty_hand_data]
  ELSE IF hands # <<>>
  THEN LET n == Min(Len(hands), Len(labels))
           r == HandLoop(SubSeq(hands, 1, n), SubSeq(labels, 1, n), 1,
                         [raised |-> FALSE, data |-> empty_hand_data])
       IN IF r.raised \/ Len(labels) >= Len(hands) THEN r
          ELSE [raised |-> TRUE, data |-> r.data]
  ELSE [raised |-> FALSE, data |-> empty_hand_data]

\* no frame was processed yet (FrameProcessor.__init__, frame_processor.py 19)
HandIdle ==
  /\ hand_impl = "utils"
  /\ hand_enabled = TRUE
  /\ multi_hand_landmarks = <<>>
  /\ multi_handedness = <<>>
  /\ hand_data = empty_hand_data
  /\ hand_raised = FALSE

\* BallTracker before its first frame
BallIdle ==
  /\ ball_enabled = TRUE
  /\ contours = <<>>
  /\ detected = {}
  /\ detect_done = FALSE

\* server.py 84: last_ball_positions = {}
NoPosition == [stored |-> FALSE, x |-> 0]
SmoothIdle ==
  /\ raw_position = 0
  /\ last_ball_position = NoPosition
  /\ start_position = NoPosition
  /\ same_frames = 0
  /\ ball_impl = "server"
  /\ ball_inputs = <<>>
  /\ ball_outputs = <<>>

\* jpeg_encoder.py 28-40: create_encoder gives a JPEGEncoder
EncIdle ==
  /\ encoder_class = "JPEGEncoder"
  /\ use_nvenc = FALSE
  /\ nvenc_encoder = FALSE
  /\ encode_errors = 0
  /\ encoded_payloads = <<>>

ToolsIdle == HandIdle /\ BallIdle /\ SmoothIdle /\ EncIdle

\* ------------------------------------------------------------------ Init
\* FrameProcessor.__init__ (frame_processor.py 17-30): no thread yet, the empty
\* hand data and the empty ball list; data is named by the number of the
\* capture-loop iteration that produced it, 0 for the initial value
TrackInit ==
  /\ cappc = "off"
  /\ running = FALSE
  /\ camera = "opened"
  /\ latest_hand_data = 0
  /\ latest_ball_data = 0

\* the server without its calibrator
ServerRest ==
  /\ connected_clients = {}
  /\ first_connection = TRUE
  /\ calibration_settings = None
  /\ frame_processor = None
  /\ hpc = [c \in Clients |-> "idle"]
  /\ alive = [c \in Clients |-> TRUE]
  /\ streams = [c \in Clients |-> <<>>]
  /\ main_settings = None
  /\ calibration_ready_event = FALSE
  /\ mainpc = "wait_event"
  /\ bpc = "none"
  /\ bsnap = {}
  /\ bvisited = {}
  /\ bcur = 0
  /\ bdisc = {}
  /\ bmessage = NoProfile
  /\ frame_counter = 0
  /\ latest_encoded_frame = 0
  /\ reqMsgs = [c \in Clients |-> 0]
  /\ calMsgs = [c \in Clients |-> 0]
  /\ errMsgs = [c \in Clients |-> 0]
  /\ frameMsgs = [c \in Clients |-> 0]
  /\ calData = {}
  /\ acceptedWhen = [c \in Clients |-> "never"]
  /\ firstAccepted = 0
  /\ triggered = 0
  /\ firstChoice = None
  /\ branchTaken = None
  /\ lateStart = [c \in Clients |-> FALSE]
  /\ sentFrames = [c \in Clients |-> <<>>]
  /\ TrackInit

ServerInit ==
  /\ ServerRest
  /\ calibrator = NoCalibrator
  /\ cal_file \in {NoFile, SavedFile, OneBallFile}
  /\ calpc = "none"

Init == ServerInit /\ ToolsIdle


\* ------------------------------------------------------- tasks, helpers
\* a websocket.send() suspends the event loop as well
LoopFreeUnlessSending ==
  /\ calpc \notin {"reusing", "calibrating"}
  /\ \A c \in Clients : \A i \in DOMAIN streams[c] : streams[c][i].pc # "frame_send"

\* The event loop is blocked while run_calibration is inside apply_cam or
\* calibrate_balls_interactive (synchronous calls, time.sleep, cv2.waitKey).
LoopFree == calpc \notin {"reusing", "calibrating"}

NewStream == [pc |-> "start", late |-> FALSE]
LiveStreamPcs == {"start", "wait", "err_send", "sleep_fp", "sleep_nopayload",
                  "sleep_pace", "frame_send"}
SleepPcs == {"sleep_fp", "sleep_nopayload", "sleep_pace"}

\* task.cancel(): a task that has not finished ends with CancelledError
Cancel(task) ==
  IF task.pc \in LiveStreamPcs THEN [pc |-> "cancelled", late |-> FALSE] ELSE task

\* finally: "if stream_task: stream_task.cancel()"
CancelStreamTask(ss) ==
  IF Len(ss) = 0 THEN ss ELSE [ss EXCEPT ![Len(ss)] = Cancel(ss[Len(ss)])]

ActiveStreams(c) == {i \in 1..Len(streams[c]) : streams[c][i].pc \in LiveStreamPcs}

Inc(f, c) == [f EXCEPT ![c] = @ + 1]

\* the finally block of handle_client, after which the library closes the
\* connection
Finally(c, cc) ==
  /\ connected_clients' = cc \ {c}
  /\ streams' = [streams EXCEPT ![c] = CancelStreamTask(@)]
  /\ hpc' = [hpc EXCEPT ![c] = "done"]
  /\ alive' = [alive EXCEPT ![c] = FALSE]

\* line 64 left out: the latch stays set
first_connection_kept == TRUE
\* line 64: self.first_connection = False
first_connection_cleared == FALSE

\* line 78 always false: the profile is never sent on connect
SendsExistingNever(settings) == FALSE
\* line 78: if self.calibration_settings is not None
SendsExisting(settings) == settings # None

\* lines 76-83: entering the try block, with cc the registered set
TryEntry(c, cc) ==
  IF SendsExisting(calibration_settings)
  THEN IF alive[c]
       THEN /\ calMsgs' = Inc(calMsgs, c)
            /\ calData' = calData \cup {SettingsValue}
            /\ hpc' = [hpc EXCEPT ![c] = "cal_send"]
            /\ connected_clients' = cc
            /\ UNCHANGED <<alive, streams>>
       ELSE /\ Finally(c, cc)
            /\ UNCHANGED <<calMsgs, calData>>
  ELSE /\ hpc' = [hpc EXCEPT ![c] = "recv"]
       /\ connected_clients' = cc
       /\ UNCHANGED <<alive, streams, calMsgs, calData>>

\* ------------------------------------------------- handle_client actions
\* lines 57-70 (first connection) or 57-83 (a later one)
Accept(c) ==
  /\ LoopFree
  /\ hpc[c] = "idle"
  /\ acceptedWhen' = [acceptedWhen EXCEPT ![c] =
                        IF calibration_settings = None THEN "before" ELSE "after"]
  /\ firstAccepted' = IF firstAccepted = 0 THEN c ELSE firstAccepted
  /\ IF first_connection
     THEN /\ first_connection' = first_connection_cleared
          /\ IF alive[c]
             THEN /\ reqMsgs' = Inc(reqMsgs, c)
                  /\ hpc' = [hpc EXCEPT ![c] = "req_send"]
             ELSE /\ hpc' = [hpc EXCEPT ![c] = "crashed"]
                  /\ UNCHANGED reqMsgs
          /\ connected_clients' = connected_clients \cup {c}
          /\ UNCHANGED <<alive, streams, calMsgs, calData>>
     ELSE /\ TryEntry(c, connected_clients \cup {c})
          /\ UNCHANGED <<first_connection, reqMsgs>>
  /\ UNCHANGED <<calibration_settings, frame_processor, calVars, bcastVars, captureVars,
                 errMsgs, frameMsgs, triggered, sentFrames, choiceVars>>

\* lines 68-83: the calibration_request send returns; on_first_connection()
\* creates the run_calibration task.  If the send raises, the exception leaves
\* handle_client before the try block: no finally runs.
ReqSendDone(c) ==
  /\ LoopFree
  /\ hpc[c] = "req_send"
  /\ IF alive[c]
     THEN /\ triggered' = triggered + 1
          /\ calpc' = IF calpc = "none" THEN "created" ELSE calpc
          /\ TryEntry(c, connected_clients)
     ELSE /\ hpc' = [hpc EXCEPT ![c] = "crashed"]
          /\ UNCHANGED <<triggered, calpc, connected_clients, alive, streams, calMsgs, calData>>
  /\ UNCHANGED <<first_connection, calibration_settings, frame_processor,
                 calibrator, cal_file, main_settings, calibration_ready_event, mainpc,
                 bcastVars, captureVars, reqMsgs, errMsgs, frameMsgs,
                 acceptedWhen, firstAccepted, sentFrames, choiceVars>>

\* lines 80-89: the calibration send returns
CalSendDone(c) ==
  /\ LoopFree
  /\ hpc[c] = "cal_send"
  /\ IF alive[c]
     THEN /\ hpc' = [hpc EXCEPT ![c] = "recv"]
          /\ UNCHANGED <<connected_clients, alive, streams>>
     ELSE Finally(c, connected_clients)
  /\ UNCHANGED <<first_connection, calibration_settings, frame_processor, calVars,
                 bcastVars, captureVars, wireVars, histVars>>


\* line 99 dropped: every start_stream creates a task
MayCreateStreamAlways(ss) == TRUE
\* line 99 as "stream_task is None or stream_task.done()": a new task once the
\* earlier one has ended
MayCreateStreamWhenEnded(ss) == \A i \in DOMAIN ss : ss[i].pc \notin LiveStreamPcs
\* the send loop of the connection was created and has ended
LoopEnded(ss) == ss # <<>> /\ \A i \in DOMAIN ss : ss[i].pc \notin LiveStreamPcs
\* line 99: if stream_task is None
MayCreateStream(ss) == Len(ss) = 0

\* lines 89-90, 107-115: json.loads raises JSONDecodeError, which is caught
\* outside the message loop; the handler ends through finally
RecvMalformed(c) ==
  /\ LoopFree
  /\ hpc[c] = "recv" /\ alive[c]
  /\ Finally(c, connected_clients)
  /\ UNCHANGED <<first_connection, calibration_settings, frame_processor, calVars,
                 bcastVars, captureVars, wireVars, histVars>>

\* lines 95-96, 137-143: calibration_choice
RecvCalibrationChoice(c, use_last) ==
  /\ LoopFree
  /\ hpc[c] = "recv" /\ alive[c]
  /\ calibrator' = set_calibration_choice(calibrator, use_last)
  /\ firstChoice' = IF firstChoice = None THEN ChoiceOf(use_last) ELSE firstChoice
  /\ UNCHANGED <<handlerVars, connVars, cal_file, calpc, main_settings,
                 calibration_ready_event, mainpc, bcastVars, captureVars, wireVars,
                 acceptedWhen, firstAccepted, triggered, sentFrames, branchTaken, lateStart>>

\* lines 97-100: start_stream
RecvStartStream(c) ==
  /\ LoopFree
  /\ hpc[c] = "recv" /\ alive[c]
  /\ streams' = [streams EXCEPT ![c] =
                   IF MayCreateStream(@) THEN Append(@, NewStream) ELSE @]
  /\ lateStart' = [lateStart EXCEPT ![c] = @ \/ LoopEnded(streams[c])]
  /\ UNCHANGED <<handlerVars, hpc, alive, calVars, bcastVars, captureVars, wireVars,
                 acceptedWhen, firstAccepted, triggered, sentFrames, firstChoice,
                 branchTaken>>

\* lines 101-103, 217-220: get_video_url; the handler waits for the executor
RecvGetVideoUrl(c) ==
  /\ LoopFree
  /\ hpc[c] = "recv" /\ alive[c]
  /\ hpc' = [hpc EXCEPT ![c] = "vid_fetch"]
  /\ UNCHANGED <<handlerVars, alive, streams, calVars, bcastVars, captureVars, wireVars,
                 histVars>>

\* lines 104-105: any other type is only logged
RecvUnknown(c) ==
  /\ LoopFree
  /\ hpc[c] = "recv" /\ alive[c]
  /\ UNCHANGED vars

\* line 89 ends (the connection is closed), lines 111-115
HandlerClosed(c) ==
  /\ LoopFree
  /\ hpc[c] = "recv" /\ ~alive[c]
  /\ Finally(c, connected_clients)
  /\ UNCHANGED <<first_connection, calibration_settings, frame_processor, calVars,
                 bcastVars, captureVars, wireVars, histVars>>

\* lines 220-225: the result is there, video_url is sent
VideoFetched(c) ==
  /\ LoopFree
  /\ hpc[c] = "vid_fetch"
  /\ IF alive[c]
     THEN /\ hpc' = [hpc EXCEPT ![c] = "vid_send"]
          /\ UNCHANGED <<connected_clients, alive, streams>>
     ELSE Finally(c, connected_clients)
  /\ UNCHANGED <<first_connection, calibration_settings, frame_processor, calVars,
                 bcastVars, captureVars, wireVars, histVars>>

VidSendDone(c) ==
  /\ LoopFree
  /\ hpc[c] = "vid_send"
  /\ IF alive[c]
     THEN /\ hpc' = [hpc EXCEPT ![c] = "recv"]
          /\ UNCHANGED <<connected_clients, alive, streams>>
     ELSE Finally(c, connected_clients)
  /\ UNCHANGED <<first_connection, calibration_settings, frame_processor, calVars,
                 bcastVars, captureVars, wireVars, histVars>>

\* the peer closes the connection, or the network drops it
ClientClose(c) ==
  /\ hpc[c] \notin {"idle", "done", "crashed"}
  /\ alive[c]
  /\ alive' = [alive EXCEPT ![c] = FALSE]
  /\ UNCHANGED <<handlerVars, hpc, streams, calVars, bcastVars, captureVars, wireVars,
                 histVars>>

\* ------------------------------------------------ _handle_stream actions
\* start_time is read only in the calibration wait
SetPc(c, i, pc) ==
  [streams EXCEPT ![c][i] = [pc |-> pc, late |-> @.late /\ pc \in {"wait", "err_send"}]]

\* line 156 never false: the wait is not left
WaitOverNever(settings) == FALSE
\* line 156: while self.calibration_settings is None
WaitOver(settings) == settings # None

\* line 157 always true: the first check already reports a timeout
TimedOutAlways(task) == TRUE
\* line 157: if time.time() - start_time > timeout
TimedOut(task) == task.late

\* line 163 dropped: after the error the function goes on to the stream
AfterErrorStreams == "sleep_pace"
\* line 163: return
AfterError == "done"

\* lines 172-198: one pass of the stream loop up to its next await
LoopIter(c, i) ==
  IF c \notin connected_clients
  THEN streams' = SetPc(c, i, "done") /\ UNCHANGED frameMsgs
  ELSE IF frame_processor = None
  THEN streams' = SetPc(c, i, "sleep_fp") /\ UNCHANGED frameMsgs
  ELSE IF latest_encoded_frame = 0
  THEN streams' = SetPc(c, i, "sleep_nopayload") /\ UNCHANGED frameMsgs
  ELSE IF alive[c]
  THEN /\ frameMsgs[c] < MaxFrames
       /\ frameMsgs' = Inc(frameMsgs, c)
       /\ streams' = SetPc(c, i, "frame_send")
  ELSE streams' = SetPc(c, i, "failed") /\ UNCHANGED frameMsgs

\* lines 148-165: the task starts, or wakes from asyncio.sleep(0.1)
StreamWake(c, i) ==
  /\ LoopFree
  /\ i \in 1..Len(streams[c])
  /\ streams[c][i].pc \in {"start", "wait"}
  /\ IF WaitOver(calibration_settings)
     THEN LoopIter(c, i) /\ UNCHANGED errMsgs
     ELSE IF TimedOut(streams[c][i])
     THEN /\ IF alive[c]
             THEN errMsgs' = Inc(errMsgs, c) /\ streams' = SetPc(c, i, "err_send")
             ELSE streams' = SetPc(c, i, "failed") /\ UNCHANGED errMsgs
          /\ UNCHANGED frameMsgs
     ELSE streams' = SetPc(c, i, "wait") /\ UNCHANGED <<errMsgs, frameMsgs>>
  /\ UNCHANGED <<handlerVars, hpc, alive, calVars, bcastVars, captureVars,
                 reqMsgs, calMsgs, calData, histVars>>

\* line 157: time.time() - start_time > timeout becomes true
Elapse(c, i) ==
  /\ i \in 1..Len(streams[c])
  /\ streams[c][i].pc = "wait"
  /\ ~streams[c][i].late
  /\ streams' = [streams EXCEPT ![c][i].late = TRUE]
  /\ UNCHANGED <<handlerVars, hpc, alive, calVars, bcastVars, captureVars, wireVars,
                 histVars>>

\* lines 159-163: the error send returns
StreamErrDone(c, i) ==
  /\ LoopFree
  /\ i \in 1..Len(streams[c])
  /\ streams[c][i].pc = "err_send"
  /\ streams' = SetPc(c, i, IF alive[c] THEN AfterError ELSE "failed")
  /\ UNCHANGED <<handlerVars, hpc, alive, calVars, bcastVars, captureVars, wireVars,
                 histVars>>

\* lines 175, 181, 215: a sleep of the stream loop ends
StreamTick(c, i) ==
  /\ LoopFree
  /\ i \in 1..Len(streams[c])
  /\ streams[c][i].pc \in SleepPcs
  /\ LoopIter(c, i)
  /\ UNCHANGED <<handlerVars, hpc, alive, calVars, bcastVars, captureVars,
                 reqMsgs, calMsgs, errMsgs, calData, histVars>>

\* lines 198-215: the frame send returns, the loop sleeps 1/TARGET_FPS
StreamSent(c, i) ==
  /\ LoopFree
  /\ i \in 1..Len(streams[c])
  /\ streams[c][i].pc = "frame_send"
  /\ streams' = SetPc(c, i, IF alive[c] THEN "sleep_pace" ELSE "failed")
  /\ UNCHANGED <<handlerVars, hpc, alive, calVars, bcastVars, captureVars, wireVars,
                 histVars>>


\* ------------------------------------- run_calibration, AsyncCalibrator
\* main.py 72-79, startup_calibration_async.py 232-235, 220-224, 189-196,
\* 106-109: the task starts, creates the calibrator and waits for the choice
\* (the Event of a new calibrator is not set)
CalStart ==
  /\ LoopFree
  /\ calpc = "created"
  /\ calibrator' = NewCalibrator(cal_file)
  /\ calpc' = "wait_choice"
  /\ UNCHANGED <<handlerVars, connVars, cal_file, main_settings, calibration_ready_event,
                 mainpc, bcastVars, captureVars, wireVars, histVars>>

\* 109-110, 196-205: the wait returns; user_choice is read now
CalChoose ==
  /\ LoopFree
  /\ calpc = "wait_choice"
  /\ calibrator.choice_received
  /\ calpc' = Branch(calibrator.user_choice)
  /\ branchTaken' = calpc'
  /\ UNCHANGED <<handlerVars, connVars, calibrator, cal_file, main_settings,
                 calibration_ready_event, mainpc, bcastVars, captureVars, wireVars,
                 acceptedWhen, firstAccepted, triggered, sentFrames, firstChoice, lateStart>>

\* 198-201, 72-98, 236 and main.py 79-85: apply_cam, get_settings, the event
CalFinishReuse ==
  /\ calpc = "reusing"
  /\ \E rb \in Readbacks(calibrator.camera_settings) :
       calibrator' = apply_cam(calibrator, rb)
  /\ main_settings' = "settings"
  /\ calibration_ready_event' = TRUE
  /\ calpc' = "done"
  /\ UNCHANGED <<handlerVars, connVars, cal_file, mainpc, bcastVars, captureVars,
                 wireVars, histVars>>

\* 203-206, 112-187, 61-70, 236 and main.py 79-85: interactive calibration,
\* save, get_settings, the event
CalFinishInteractive ==
  /\ calpc = "calibrating"
  /\ \E r \in PickedRanges(calibrator.hsv_ranges) :
       /\ calibrator' = [calibrator EXCEPT !.hsv_ranges = r]
       /\ cal_file' = save(calibrator')
  /\ main_settings' = "settings"
  /\ calibration_ready_event' = TRUE
  /\ calpc' = "done"
  /\ UNCHANGED <<handlerVars, connVars, mainpc, bcastVars, captureVars, wireVars,
                 histVars>>

\* ------------------------------------------------------------------ main
\* main.py 127-140 and websocket_handler.py 23-29: the event is set; the frame
\* processor is started, the handler gets it and the settings, and the
\* broadcast task is created
MainReady ==
  /\ LoopFree
  /\ mainpc = "wait_event"
  /\ calibration_ready_event
  /\ frame_processor' = "started"
  /\ calibration_settings' = main_settings
  /\ running' = TRUE
  /\ bpc' = "created"
  /\ mainpc' = "forever"
  /\ UNCHANGED <<connected_clients, first_connection, connVars, calibrator, cal_file,
                 calpc, main_settings, calibration_ready_event,
                 bsnap, bvisited, bcur, bdisc, bmessage, frame_counter, latest_encoded_frame,
                 cappc, camera, latest_hand_data, latest_ball_data, toolVars, wireVars,
                 histVars>>

\* ------------------------------------------------- broadcast_calibration
\* One run of the task from a `for` step to its next await.  The set iterator
\* raises RuntimeError when the size of the set differs from the size it had
\* when the loop started; the order of a set is not defined, and a client added
\* meanwhile (the size unchanged) may be met or missed.  `snap` is the set as
\* the loop found it, `disc` and `visited` are the local sets after the send that
\* just returned.  The locals are dropped when the task ends.
BcastAdvance(snap, message, disc, visited) ==
  IF Cardinality(connected_clients) # Cardinality(snap)
  THEN /\ bpc' = "failed"
       /\ bsnap' = {} /\ bvisited' = {} /\ bdisc' = {} /\ bcur' = 0
       /\ UNCHANGED <<connected_clients, calMsgs, calData>>
  ELSE LET must == (snap \cap connected_clients) \ visited
           may == (connected_clients \ snap) \ visited
           dead == {c \in must \cup may : ~alive[c]}
           live == {c \in must \cup may : alive[c]}
       IN \E D \in SUBSET dead :
            \/ \E c \in live :
                 /\ calMsgs' = Inc(calMsgs, c)
                 /\ calData' = calData \cup {message}
                 /\ bcur' = c
                 /\ bsnap' = snap
                 /\ bvisited' = visited \cup D \cup {c}
                 /\ bdisc' = disc \cup D
                 /\ bpc' = "send"
                 /\ UNCHANGED connected_clients
            \/ /\ must \subseteq D
               /\ connected_clients' = connected_clients \ (disc \cup D)
               /\ bsnap' = {} /\ bvisited' = {} /\ bdisc' = {} /\ bcur' = 0
               /\ bpc' = "done"
               /\ UNCHANGED <<calMsgs, calData>>

\* lines 31-48: the task starts
BcastStart ==
  /\ LoopFree
  /\ bpc = "created"
  /\ IF calibration_settings = None
     THEN /\ bpc' = "done"
          /\ UNCHANGED <<connected_clients, calMsgs, calData, bsnap, bvisited, bcur,
                         bdisc, bmessage>>
     ELSE /\ bmessage' = SettingsValue
          /\ BcastAdvance(connected_clients, SettingsValue, {}, {})
  /\ UNCHANGED <<first_connection, calibration_settings, frame_processor, connVars,
                 calVars, captureVars, reqMsgs, errMsgs, frameMsgs, histVars>>

\* lines 46-55: a send returns or raises
BcastResume ==
  /\ LoopFree
  /\ bpc = "send"
  /\ BcastAdvance(bsnap, bmessage,
                  IF alive[bcur] THEN bdisc ELSE bdisc \cup {bcur}, bvisited)
  /\ UNCHANGED <<first_connection, calibration_settings, frame_processor, connVars,
                 calVars, captureVars, reqMsgs, errMsgs, frameMsgs, histVars, bmessage>>

\* ------------------------------------------------------- FrameProcessor
\* frame_processor.py 47-71, the thread started in main.py 134: a frame is
\* read, counted and encoded, and the payload replaces the latest one
CaptureFrame ==
  /\ frame_processor = "started"
  /\ frame_counter < MaxCapture
  /\ frame_counter' = frame_counter + 1
  /\ latest_encoded_frame' = frame_counter + 1
  /\ UNCHANGED <<trackVars, toolVars, handlerVars, connVars, calVars, bcastVars, wireVars, histVars>>

\* ------------------------------------------------------- specifications
\* SpecGate: connections, the calibration gate and the Ready broadcast; the
\* clients send no start_stream and no get_video_url.
GateNext ==
  \/ \E c \in Clients : Accept(c)
  \/ \E c \in Clients : ReqSendDone(c)
  \/ \E c \in Clients : CalSendDone(c)
  \/ \E c \in Clients : RecvMalformed(c)
  \/ \E c \in Clients, b \in BOOLEAN : RecvCalibrationChoice(c, b)
  \/ \E c \in Clients : RecvUnknown(c)
  \/ \E c \in Clients : HandlerClosed(c)
  \/ \E c \in Clients : ClientClose(c)
  \/ CalStart
  \/ CalChoose
  \/ CalFinishReuse
  \/ CalFinishInteractive
  \/ MainReady
  \/ BcastStart
  \/ BcastResume

SpecGate == Init /\ [][GateNext]_vars

\* SpecStream: the same program with streaming and the capture thread; no
\* calibration file exists, the operator chooses "use last", and the clients
\* send no get_video_url.
StreamInit == Init /\ cal_file = NoFile

StreamNext ==
  \/ \E c \in Clients : Accept(c)
  \/ \E c \in Clients : ReqSendDone(c)
  \/ \E c \in Clients : CalSendDone(c)
  \/ \E c \in Clients : RecvMalformed(c)
  \/ \E c \in Clients : RecvCalibrationChoice(c, TRUE)
  \/ \E c \in Clients : RecvStartStream(c)
  \/ \E c \in Clients : RecvUnknown(c)
  \/ \E c \in Clients : HandlerClosed(c)
  \/ \E c \in Clients : ClientClose(c)
  \/ \E c \in Clients : \E i \in DOMAIN streams[c] : StreamWake(c, i)
  \/ \E c \in Clients : \E i \in DOMAIN streams[c] : Elapse(c, i)
  \/ \E c \in Clients : \E i \in DOMAIN streams[c] : StreamErrDone(c, i)
  \/ \E c \in Clients : \E i \in DOMAIN streams[c] : StreamTick(c, i)
  \/ \E c \in Clients : \E i \in DOMAIN streams[c] : StreamSent(c, i)
  \/ CalStart
  \/ CalChoose
  \/ CalFinishReuse
  \/ MainReady
  \/ BcastStart
  \/ BcastResume
  \/ CaptureFrame

SpecStream == StreamInit /\ [][StreamNext]_vars

\* SpecSession: SpecStream with get_video_url requests as well.
SessionNext ==
  \/ StreamNext
  \/ \E c \in Clients : RecvGetVideoUrl(c)
  \/ \E c \in Clients : VideoFetched(c)
  \/ \E c \in Clients : VidSendDone(c)

SpecSession == StreamInit /\ [][SessionNext]_vars

\* ----------------------------------------------------------------- claims
Ready == calibration_settings # None
Connected(c) == alive[c] /\ hpc[c] \notin {"idle", "done", "crashed"}
Sum(f) == LET S[n \in 0..NClients] == IF n = 0 THEN 0 ELSE S[n - 1] + f[n] IN S[NClients]

\* C1: every subscriber that was accepted before the gate was Ready and is
\* still connected has been sent at most one `calibration` message, and exactly
\* one once the broadcast task has ended (normally or with an exception).
C1_ExactlyOneCalibration ==
  \A c \in Clients :
    (acceptedWhen[c] = "before" /\ Connected(c)) =>
      /\ calMsgs[c] <= 1
      /\ (bpc \in {"done", "failed"} => calMsgs[c] = 1)

\* the part of C1 that the code keeps: never two
C1_NeverTwo ==
  \A c \in Clients : acceptedWhen[c] = "before" => calMsgs[c] <= 1

\* C2: calibration_request is sent at most once in the run and only to the
\* first subscriber ever accepted, and on_first_connection is invoked at most
\* once, whatever connects or disconnects later.
C2_RequestOnce ==
  /\ Sum(reqMsgs) <= 1
  /\ \A c \in Clients : reqMsgs[c] > 0 => c = firstAccepted
  /\ triggered <= 1

\* the first subscriber has gone, a later one is connected, and still only
\* the first one was asked
C2_Witness ==
  \E c, d \in Clients :
    /\ c = firstAccepted /\ hpc[c] = "done" /\ reqMsgs[c] = 1 /\ triggered = 1
    /\ d # c /\ hpc[d] = "recv" /\ reqMsgs[d] = 0

\* The calibration gate as the specification names its states, read from the
\* position of the run_calibration task.
GateState ==
  CASE calpc = "none" -> "Idle"
    [] calpc \in {"created", "wait_choice"} -> "AwaitingChoice"
    [] calpc = "reusing" -> "Reusing"
    [] calpc = "calibrating" -> "Calibrating"
    [] calpc = "done" -> "Ready"

GateEdges ==
  {<<"Idle", "AwaitingChoice">>, <<"AwaitingChoice", "Reusing">>,
   <<"AwaitingChoice", "Calibrating">>, <<"Reusing", "Ready">>,
   <<"Calibrating", "Ready">>}

\* C23: the gate moves only along Idle -> AwaitingChoice -> (Reusing or
\* Calibrating) -> Ready: every change of its state is one of these edges (no
\* skip, no step back), the branch once taken is the only one of the run, and
\* once Ready the gate and the handler's settings stay as they are.
C23_GateMovesForward ==
  /\ [][GateState' # GateState => <<GateState, GateState'>> \in GateEdges]_vars
  /\ [][branchTaken # None => branchTaken' = branchTaken]_vars
  /\ [](GateState = "Reusing" => branchTaken = "reusing")
  /\ [](GateState = "Calibrating" => branchTaken = "calibrating")
  /\ [][GateState = "Ready" => GateState' = "Ready"]_vars
  /\ [][Ready => Ready' /\ calibration_settings' = calibration_settings]_vars

\* the gate is Ready by way of Calibrating, and a choice "use last" that came
\* afterwards has been recorded without moving it
C23_Witness ==
  /\ GateState = "Ready" /\ Ready
  /\ branchTaken = "calibrating"
  /\ calibrator.user_choice = "use_last"

\* C24: the branch the gate takes is the one of the first calibration_choice
\* message a handler received, whatever choices are received after it (also
\* between the first one and the moment the waiting task resumes).
C24_FirstChoiceDecides ==
  branchTaken # None => branchTaken = Branch(firstChoice)

\* the part of C24 that the code keeps: once the branch is taken, a later
\* choice changes neither the branch nor, once Ready, the profile
C24_LateChoiceIgnored ==
  /\ [][branchTaken # None => branchTaken' = branchTaken]_vars
  /\ [][GateState = "Ready" =>
          /\ calibrator'.camera_settings = calibrator.camera_settings
          /\ calibrator'.hsv_ranges = calibrator.hsv_ranges
          /\ main_settings' = main_settings]_vars

\* the gate is Ready by way of Reusing (the reuse path leaves the file as it
\* was when the server started)
ReadyByReuse == GateState = "Ready" /\ branchTaken = "reusing"

\* C33 as stated: after "use last" the profile is the persisted one when a file
\* exists, camera settings and the range of every ball id in the file, and
\* the hard-coded presets otherwise.
C33_ReuseGivesPersistedProfile ==
  ReadyByReuse =>
    IF cal_file.exists
    THEN /\ SettingsValue.camera_settings = cal_file.camera_settings
         /\ \A key \in DOMAIN cal_file.hsv_ranges :
              SettingsValue.hsv_ranges[int(key)] = cal_file.hsv_ranges[key]
    ELSE SettingsValue.hsv_ranges = Presets

\* C33, amended: after "use last" the HSV ranges are the persisted ones for
\* every ball id in the file and the presets for every other id (all of them
\* without a file); the camera settings are what the camera reports after
\* the persisted settings (without a file: its own) were applied to it.
C33_ReuseGivesPersistedRanges ==
  ReadyByReuse =>
    /\ DOMAIN SettingsValue.hsv_ranges =
         (0..(NumBalls - 1)) \cup {int(key) : key \in DOMAIN cal_file.hsv_ranges}
    /\ \A k \in DOMAIN SettingsValue.hsv_ranges :
         SettingsValue.hsv_ranges[k] =
           IF str(k) \in DOMAIN cal_file.hsv_ranges
           THEN cal_file.hsv_ranges[str(k)] ELSE "preset"
    /\ SettingsValue.camera_settings \in
         Readbacks(IF cal_file.exists THEN cal_file.camera_settings ELSE "device")

\* a file for one ball was reused: ball 0 has the persisted range, ball 1 its
\* preset, and the camera answered with its own settings
C33_Witness ==
  /\ ReadyByReuse /\ Ready
  /\ cal_file = OneBallFile
  /\ SettingsValue = [camera_settings |-> "device",
                      hsv_ranges |-> (0 :> "file") @@ (1 :> "preset")]

\* C34: last_calibration.json is written exactly when interactive calibration
\* completes: the file changes only in the step from Calibrating to Ready,
\* a gate that is Ready by way of Calibrating finds its profile in the file,
\* and the reuse path leaves the file alone.
C34_SavedWhenInteractiveCompletes ==
  /\ [][cal_file' # cal_file => GateState = "Calibrating" /\ GateState' = "Ready"]_vars
  /\ [](GateState = "Ready" /\ branchTaken = "calibrating" =>
          /\ cal_file.exists
          /\ cal_file.camera_settings = SettingsValue.camera_settings
          /\ DOMAIN cal_file.hsv_ranges = {str(k) : k \in DOMAIN SettingsValue.hsv_ranges}
          /\ \A k \in DOMAIN SettingsValue.hsv_ranges :
               cal_file.hsv_ranges[str(k)] = SettingsValue.hsv_ranges[k])
  /\ [][GateState = "Reusing" => cal_file' = cal_file]_vars

\* no file at the start, ball 0 was picked and ball 1 left at its preset: the
\* file holds that profile when the gate is Ready
C34_Witness ==
  /\ GateState = "Ready" /\ branchTaken = "calibrating"
  /\ cal_file = [exists |-> TRUE, camera_settings |-> "device",
                 hsv_ranges |-> [key \in {"0", "1"} |->
                                   IF key = "0" THEN "picked" ELSE "preset"]]

\* C36: when a send of the Ready broadcast fails, the broadcast does not end
\* before every other subscriber that is connected at that time has been sent
\* the `calibration` message, and what the broadcast removes from the
\* registered set are subscribers whose connection is gone, nobody else.
C36_FailedSendSparesTheOthers ==
  /\ [][(bpc = "send" /\ ~alive[bcur] /\ bpc' = "failed") =>
          \A d \in connected_clients \ {bcur} : Connected(d) => calMsgs[d] >= 1]_vars
  /\ [][(bpc \in {"created", "send"} /\ bpc' = "done") =>
          \A d \in connected_clients \ connected_clients' : ~alive[d]]_vars

\* the part of C36 that holds: a broadcast that runs to its end has removed
\* the subscribers it could not send to and has sent to the others
C36_CompletedBroadcastServedAll ==
  [][(bpc \in {"created", "send"} /\ bpc' = "done") =>
       /\ \A d \in connected_clients \ connected_clients' : ~alive[d]
       /\ \A d \in connected_clients' : Connected(d) => calMsgs'[d] >= 1]_vars

\* C38: every subscriber is sent its calibration message before the first
\* frame message sent to it, whatever the interleaving of the Ready broadcast,
\* the connection handlers and the send loops
C38_CalibrationBeforeFirstFrame ==
  \A c \in Clients : frameMsgs[c] > 0 => calMsgs[c] > 0

\* the interleaving the claim names: while the broadcast is suspended on its
\* send to another subscriber, no send loop sends a first frame to a
\* subscriber the broadcast has not served yet
C38_NoFrameWhileBroadcastSuspended ==
  [][\A c \in Clients :
       (bpc = "send" /\ bcur # c /\ alive[bcur] /\ calMsgs[c] = 0)
         => frameMsgs'[c] = frameMsgs[c]]_vars

\* C40: over the lifetime of a connection at most one send-loop task is
\* created; a start_stream read after the first loop has ended creates no
\* task, and the subscriber is sent no further frame on that connection
C40_OneSendLoopPerConnection ==
  /\ [](\A c \in Clients : Len(streams[c]) <= 1)
  /\ [][\A c \in Clients :
          LoopEnded(streams[c]) => (streams'[c] = streams[c] /\ frameMsgs'[c] = frameMsgs[c])]_vars

\* the first loop of a subscriber ended with the calibration timeout, the gate
\* is Ready since, the connection is up and a later start_stream was read:
\* there is still the one ended task and no frame was sent
C40_Witness ==
  \E c \in Clients :
    /\ lateStart[c] /\ Ready /\ Connected(c) /\ hpc[c] = "recv"
    /\ errMsgs[c] = 1 /\ Len(streams[c]) = 1 /\ frameMsgs[c] = 0
    /\ latest_encoded_frame # 0

\* C6: a subscriber accepted when the gate is already Ready has been sent the
\* `calibration` message from the moment it is accepted, so before the handler
\* reads any of its messages and whatever the broadcast task does.
C6_LateJoinerServedAtOnce ==
  \A c \in Clients : acceptedWhen[c] = "after" => calMsgs[c] >= 1

\* a late joiner that has its profile while the broadcast task has not run
C6_Witness ==
  \E c \in Clients :
    acceptedWhen[c] = "after" /\ hpc[c] = "cal_send" /\ calMsgs[c] = 1 /\ bpc = "created"

\* C7: all `calibration` messages of a run carry the same profile, and once
\* the handler has its settings neither the reference nor the content changes.
C7_OneProfile ==
  /\ [](Cardinality(calData) <= 1)
  /\ [][Ready => (calibration_settings' = calibration_settings
                  /\ SettingsValue' = SettingsValue)]_vars

\* one subscriber was served by the broadcast, another joined later, and
\* another calibration_choice arrived after the branch had been taken
C7_Witness ==
  \E c, d \in Clients :
    /\ acceptedWhen[c] = "before" /\ calMsgs[c] = 1
    /\ acceptedWhen[d] = "after" /\ calMsgs[d] >= 1
    /\ calData = {SettingsValue}
    /\ SettingsValue.hsv_ranges = [k \in 0..(NumBalls - 1) |-> "picked"]
    /\ calibrator.user_choice = "use_last"

\* the calibration wait of a stream task, and its loop
Pending(c) == \E i \in DOMAIN streams[c] : streams[c][i].pc \in {"start", "wait"}
InLoop(c) == \E i \in DOMAIN streams[c] : streams[c][i].pc \in SleepPcs \cup {"frame_send"}
WaitingLate(c) ==
  \E i \in DOMAIN streams[c] : streams[c][i].pc = "wait" /\ streams[c][i].late

\* C3: no `frame` message is sent while the gate is not Ready, and an `error`
\* message is sent to a subscriber only when the gate is not Ready and the
\* timeout of its waiting stream task has elapsed.
C3_OnlyWaitsBeforeReady ==
  /\ [](~Ready => \A c \in Clients : frameMsgs[c] = 0)
  /\ [][\A c \in Clients :
          /\ frameMsgs'[c] # frameMsgs[c] => Ready
          /\ errMsgs'[c] # errMsgs[c] => (~Ready /\ WaitingLate(c))]_vars

\* a stream task that has run, found the gate not Ready and sleeps, with
\* nothing sent to its subscriber
C3_Witness ==
  \E c \in Clients :
    /\ ~Ready /\ Connected(c)
    /\ \E i \in DOMAIN streams[c] : streams[c][i].pc = "wait" /\ ~streams[c][i].late
    /\ frameMsgs[c] = 0 /\ errMsgs[c] = 0

\* C4: a stream task that wakes after its timeout with the gate not Ready
\* sends one `error` message to its own (open) connection; that step changes
\* nothing else: not the gate, the registered set, the handlers or another
\* subscriber's stream task; a subscriber gets at most one `error`, and after
\* it no send loop runs and no `frame` is sent on that connection.
C4_TimeoutOnlyThatSubscriber ==
  /\ [](\A c \in Clients :
          /\ errMsgs[c] <= 1
          /\ errMsgs[c] = 1 => (frameMsgs[c] = 0 /\ ~InLoop(c)))
  /\ [][\A c \in Clients :
          /\ (\E i \in DOMAIN streams[c] :
                /\ streams[c][i].pc = "wait" /\ streams[c][i].late
                /\ ~Ready /\ alive[c]
                /\ streams'[c][i].pc \notin {"wait", "cancelled"})
             => errMsgs'[c] = errMsgs[c] + 1
          /\ errMsgs'[c] # errMsgs[c]
             => /\ errMsgs' = Inc(errMsgs, c)
                /\ \A d \in Clients \ {c} : streams'[d] = streams[d]
                /\ UNCHANGED <<handlerVars, hpc, alive, calVars, bcastVars, captureVars,
                               reqMsgs, calMsgs, frameMsgs, calData>>]_vars

\* one subscriber was answered with the timeout error and its task has
\* returned; the other one is connected and still waits
C4_Witness ==
  \E c, d \in Clients :
    /\ c # d /\ Connected(c) /\ Connected(d)
    /\ errMsgs[c] = 1 /\ streams[c] = <<[pc |-> "done", late |-> FALSE]>>
    /\ errMsgs[d] = 0 /\ Pending(d)

\* C5: once the gate is Ready, every stream task still in its calibration wait
\* leaves the wait, no `error` message is sent any more, and a subscriber with
\* a live stream task is sent a `frame` once a payload exists (unless its
\* connection ends first).
C5_PendingReleased ==
  /\ \A c \in Clients : (Ready /\ Pending(c)) ~> ~Pending(c)
  /\ \A c \in Clients :
       (Ready /\ (Pending(c) \/ InLoop(c)) /\ latest_encoded_frame # 0)
         ~> (frameMsgs[c] >= 1 \/ ~Connected(c))
  /\ [][Ready => errMsgs' = errMsgs]_vars

\* two subscribers that both waited are streaming: each has a frame and none
\* was sent an error
C5_Witness ==
  /\ Ready
  /\ \A c \in Clients : Connected(c) /\ acceptedWhen[c] = "before"
                        /\ frameMsgs[c] >= 1 /\ errMsgs[c] = 0

\* C8: a subscriber never has two live stream tasks, and a start_stream
\* received while one is live changes neither the tasks nor what is sent.
C8_StartStreamIdempotent ==
  /\ [](\A c \in Clients : Cardinality(ActiveStreams(c)) <= 1)
  /\ [][\A c \in Clients :
          (ActiveStreams(c) # {} /\ RecvStartStream(c)) => UNCHANGED <<streams, wireVars>>]_vars

\* a streaming subscriber whose handler is ready to read the next message
C8_Witness ==
  \E c \in Clients :
    /\ hpc[c] = "recv" /\ alive[c]
    /\ streams[c] = <<[pc |-> "sleep_pace", late |-> FALSE]>>
    /\ frameMsgs[c] >= 1

\* C9: a malformed message leaves the subscriber registered, its handler in
\* the message loop and its stream task untouched.
C9_MalformedKeepsConnection ==
  [][\A c \in Clients :
       RecvMalformed(c) => (/\ c \in connected_clients'
                            /\ hpc'[c] = "recv"
                            /\ streams'[c] = streams[c])]_vars

\* C10: once the handler of a connection has ended, the subscriber is not
\* registered, it has no live stream task, and no `frame` is sent to it.
C10_EndedConnectionGone ==
  /\ [](\A c \in Clients :
          hpc[c] \in {"done", "crashed"} =>
            (c \notin connected_clients /\ ActiveStreams(c) = {}))
  /\ [][\A c \in Clients :
          hpc[c] \in {"done", "crashed"} => frameMsgs'[c] = frameMsgs[c]]_vars

\* ------------------------------------------------------------- fairness
\* asyncio resumes every task whose sleep has ended
FairStream ==
  /\ SpecStream
  /\ \A c \in Clients :
       /\ WF_vars(\E i \in DOMAIN streams[c] : StreamWake(c, i))
       /\ WF_vars(\E i \in DOMAIN streams[c] : StreamTick(c, i))

\* The gate with its own steps scheduled fairly: a send of calibration_request
\* returns or raises, asyncio runs the run_calibration task and main when they
\* are ready, and the operator finishes an interactive calibration.  What the
\* subscribers send, and when, is left open.
FairGate ==
  /\ SpecGate
  /\ WF_vars(\E c \in Clients : ReqSendDone(c))
  /\ WF_vars(CalStart)
  /\ WF_vars(CalChoose)
  /\ WF_vars(CalFinishReuse)
  /\ WF_vars(CalFinishInteractive)
  /\ WF_vars(MainReady)

\* C39: a calibration choice is never lost: once a subscriber has sent
\* calibration_choice (firstChoice records the first one the handlers read),
\* the gate eventually reaches Ready and the profile is there for the subscribers
C39_ChoiceNeverLost ==
  (firstChoice # None) ~> Ready

\* the same when the send of calibration_request succeeded and the
\* run_calibration task was created: only the timing of the choice is open
C39_ChoiceNeverLostOnceTriggered ==
  (firstChoice # None /\ triggered = 1) ~> Ready

\* the part the code keeps: a choice that reaches the calibrator leads to Ready
C39_DeliveredChoiceLeadsToReady ==
  (calibrator.exists /\ calibrator.choice_received) ~> Ready

\* One subscriber whose send may stay blocked for ever: the other tasks and
\* the capture thread are scheduled fairly, its own send need never return.
SlowClient == 1

FairOthers ==
  /\ SpecStream
  /\ WF_vars(CaptureFrame)
  /\ \A c \in Clients \ {SlowClient} :
       /\ WF_vars(\E i \in DOMAIN streams[c] : StreamWake(c, i))
       /\ WF_vars(\E i \in DOMAIN streams[c] : StreamTick(c, i))
       /\ WF_vars(\E i \in DOMAIN streams[c] : StreamSent(c, i))

Sending(c) == \E i \in DOMAIN streams[c] : streams[c][i].pc = "frame_send"

MaxTicks == 3        \* capture-loop iterations that acquire a frame (src/utils)

HAND_TRACKING_SKIP == 2
BALL_TRACKING_SKIP == 3

\* utils/main.py 47-72, startup_calibration.py 175: the settings are those of
\* a newly made StartupCalibrator; the thread is running
UtilsInit ==
  /\ connected_clients = {}
  /\ first_connection = FALSE
  /\ calibration_settings = "settings"
  /\ frame_processor = "started"
  /\ hpc = [c \in Clients |-> "idle"]
  /\ alive = [c \in Clients |-> TRUE]
  /\ streams = [c \in Clients |-> <<>>]
  /\ cal_file = SavedFile
  /\ calibrator = NewCalibrator(cal_file)
  /\ calpc = "done"
  /\ main_settings = "settings"
  /\ calibration_ready_event = FALSE
  /\ mainpc = "forever"
  /\ bpc = "none"
  /\ bsnap = {}
  /\ bvisited = {}
  /\ bcur = 0
  /\ bdisc = {}
  /\ bmessage = NoProfile
  /\ frame_counter = 0
  /\ latest_encoded_frame = 0
  /\ cappc = "check"
  /\ running = TRUE
  /\ camera = "opened"
  /\ latest_hand_data = 0
  /\ latest_ball_data = 0
  /\ reqMsgs = [c \in Clients |-> 0]
  /\ calMsgs = [c \in Clients |-> 0]
  /\ errMsgs = [c \in Clients |-> 0]
  /\ frameMsgs = [c \in Clients |-> 0]
  /\ calData = {}
  /\ acceptedWhen = [c \in Clients |-> "never"]
  /\ firstAccepted = 0
  /\ triggered = 0
  /\ firstChoice = None
  /\ branchTaken = None
  /\ lateStart = [c \in Clients |-> FALSE]
  /\ sentFrames = [c \in Clients |-> <<>>]
  /\ ToolsIdle

\* ------------------------------------- FrameProcessor._process_loop, by step
\* frame_processor.py 85-91: the three fields as they are now
get_latest_frame_data ==
  [encoded_frame |-> latest_encoded_frame,
   hands |-> latest_hand_data,
   balls |-> latest_ball_data]

NotCapture == <<handlerVars, connVars, calVars, bcastVars, wireVars, histVars, toolVars,
                lifeVars>>

\* a loop that does not look at the flag
LoopGoesOnAnyway(r) == TRUE
\* line 47: while self.running
LoopGoesOn(r) == r

CapCheck ==
  /\ cappc = "check"
  /\ cappc' = IF LoopGoesOn(running) THEN "read" ELSE "exited"
  /\ UNCHANGED <<frame_counter, latest_encoded_frame, latest_hand_data, latest_ball_data,
                 NotCapture>>

\* line 50 skipped: a failed read counts as a frame
AfterMissCounts(n) == n + 1
\* lines 49-51: if not ret: time.sleep(0.001); continue
AfterMiss(n) == n

\* lines 48-54: camera.read(); without a frame the loop sleeps and starts over.
\* Only an opened capture device gives frames, and at most `limit` of them.
CapReadUpTo(limit) ==
  /\ cappc = "read"
  /\ \/ /\ cappc' = "miss_sleep"
        /\ frame_counter' = AfterMiss(frame_counter)
     \/ /\ camera = "opened"
        /\ frame_counter < limit
        /\ frame_counter' = frame_counter + 1
        /\ cappc' = "hand"
  /\ UNCHANGED <<latest_encoded_frame, latest_hand_data, latest_ball_data, NotCapture>>

CapRead == CapReadUpTo(MaxTicks)

\* line 50-51: the sleep after a failed read ends
CapMissWake ==
  /\ cappc = "miss_sleep"
  /\ cappc' = "check"
  /\ UNCHANGED <<frame_counter, latest_encoded_frame, latest_hand_data, latest_ball_data,
                 NotCapture>>

\* trackers without a cadence
HandDueEveryFrame == TRUE
BallDueEveryFrame == TRUE
\* lines 57 and 61; HAND_TRACKING_ENABLED and BALL_TRACKING_ENABLED are True
HandDue == frame_counter % HAND_TRACKING_SKIP = 0
BallDue == frame_counter % BALL_TRACKING_SKIP = 0

\* lines 57-58: hand tracking on every HAND_TRACKING_SKIP-th frame
CapHand ==
  /\ cappc = "hand"
  /\ latest_hand_data' = IF HandDue THEN frame_counter ELSE latest_hand_data
  /\ cappc' = "ball"
  /\ UNCHANGED <<frame_counter, latest_encoded_frame, latest_ball_data, NotCapture>>

\* line 58: hand_tracker.process raises; nothing in _process_loop catches it
\* and the thread ends
CapHandRaises ==
  /\ cappc = "hand" /\ HandDue
  /\ cappc' = "dead"
  /\ UNCHANGED <<frame_counter, latest_encoded_frame, latest_hand_data, latest_ball_data,
                 NotCapture>>

\* lines 61-63: ball tracking on every third frame
CapBall ==
  /\ cappc = "ball"
  /\ latest_ball_data' = IF BallDue THEN frame_counter ELSE latest_ball_data
  /\ cappc' = "encode"
  /\ UNCHANGED <<frame_counter, latest_encoded_frame, latest_hand_data, NotCapture>>

\* line 62: ball_tracker.detect raises
CapBallRaises ==
  /\ cappc = "ball" /\ BallDue
  /\ cappc' = "dead"
  /\ UNCHANGED <<frame_counter, latest_encoded_frame, latest_hand_data, latest_ball_data,
                 NotCapture>>

\* lines 66-78: the frame is encoded and published, the loop sleeps 1 ms
CapEncode ==
  /\ cappc = "encode"
  /\ latest_encoded_frame' = frame_counter
  /\ cappc' = "check"
  /\ UNCHANGED <<frame_counter, latest_hand_data, latest_ball_data, NotCapture>>

\* ------------------------------------ src/utils/websocket_handler.py
UQuiet == <<first_connection, calibration_settings, frame_processor, streams, calVars,
            bcastVars, captureVars, reqMsgs, errMsgs, acceptedWhen, firstAccepted,
            triggered, choiceVars>>

\* lines 34-38: except Exception, finally: discard; the connection is closed
UFinally(c) ==
  /\ connected_clients' = connected_clients \ {c}
  /\ hpc' = [hpc EXCEPT ![c] = "done"]
  /\ alive' = [alive EXCEPT ![c] = FALSE]

\* lines 18-28: the client is registered and sent the calibration
UAccept(c) ==
  /\ hpc[c] = "idle"
  /\ connected_clients' = connected_clients \cup {c}
  /\ calMsgs' = Inc(calMsgs, c)
  /\ calData' = calData \cup {SettingsValue}
  /\ hpc' = [hpc EXCEPT ![c] = "cal_send"]
  /\ UNCHANGED <<alive, frameMsgs, sentFrames, UQuiet>>

\* lines 25-31: the calibration send returns or raises
UCalSendDone(c) ==
  /\ hpc[c] = "cal_send"
  /\ IF alive[c]
     THEN hpc' = [hpc EXCEPT ![c] = "recv"] /\ UNCHANGED <<connected_clients, alive>>
     ELSE UFinally(c)
  /\ UNCHANGED <<calMsgs, calData, frameMsgs, sentFrames, UQuiet>>

\* lines 31, 36-38: the message loop ends with the connection
UHandlerClosed(c) ==
  /\ hpc[c] = "recv" /\ ~alive[c]
  /\ UFinally(c)
  /\ UNCHANGED <<calMsgs, calData, frameMsgs, sentFrames, UQuiet>>

\* lines 42-43, 53-54: invalid JSON is logged, the loop goes on
URecvMalformed(c) ==
  /\ hpc[c] = "recv" /\ alive[c]
  /\ UNCHANGED vars

\* a loop that sends only what it has not sent yet
NothingNewToSend(c) ==
  \/ get_latest_frame_data.encoded_frame = 0
  \/ /\ sentFrames[c] # <<>>
     /\ sentFrames[c][Len(sentFrames[c])].encoded_frame = get_latest_frame_data.encoded_frame
\* a loop without the test of line 67
NothingToSendNever(c) == FALSE
\* line 67: if frame_data['encoded_frame'] is None
NothingToSend(c) == get_latest_frame_data.encoded_frame = 0

\* lines 63-85: one pass of the stream loop up to its next await
ULoopIter(c) ==
  IF c \notin connected_clients
  THEN /\ hpc' = [hpc EXCEPT ![c] = "recv"]
       /\ UNCHANGED <<connected_clients, alive, frameMsgs, sentFrames>>
  ELSE IF NothingToSend(c)
  THEN /\ hpc' = [hpc EXCEPT ![c] = "sleep_nopayload"]
       /\ UNCHANGED <<connected_clients, alive, frameMsgs, sentFrames>>
  ELSE IF alive[c]
  THEN /\ frameMsgs[c] < MaxFrames
       /\ frameMsgs' = Inc(frameMsgs, c)
       /\ sentFrames' = [sentFrames EXCEPT ![c] = Append(@, get_latest_frame_data)]
       /\ hpc' = [hpc EXCEPT ![c] = "frame_send"]
       /\ UNCHANGED <<connected_clients, alive>>
  ELSE /\ UFinally(c)
       /\ UNCHANGED <<frameMsgs, sentFrames>>

\* lines 46-47, 56-63: start_stream; _handle_stream runs in the handler
URecvStartStream(c) ==
  /\ hpc[c] = "recv" /\ alive[c]
  /\ ULoopIter(c)
  /\ UNCHANGED <<calMsgs, calData, UQuiet>>

\* lines 68, 102: a sleep of the stream loop ends
UStreamTick(c) ==
  /\ hpc[c] \in {"sleep_nopayload", "sleep_pace"}
  /\ ULoopIter(c)
  /\ UNCHANGED <<calMsgs, calData, UQuiet>>

\* lines 85-102: the frame send returns, the loop sleeps 1/TARGET_FPS; if it
\* raises, the exception ends handle_client
UStreamSent(c) ==
  /\ hpc[c] = "frame_send"
  /\ IF alive[c]
     THEN hpc' = [hpc EXCEPT ![c] = "sleep_pace"] /\ UNCHANGED <<connected_clients, alive>>
     ELSE UFinally(c)
  /\ UNCHANGED <<calMsgs, calData, frameMsgs, sentFrames, UQuiet>>

\* lines 48-49, 103-106: get_video_url; the handler waits for the video service
URecvGetVideoUrl(c) ==
  /\ hpc[c] = "recv" /\ alive[c]
  /\ hpc' = [hpc EXCEPT ![c] = "vid_fetch"]
  /\ UNCHANGED <<connected_clients, alive, calMsgs, calData, frameMsgs, sentFrames, UQuiet>>

\* lines 106-111: the result is there, video_url is sent
UVideoFetched(c) ==
  /\ hpc[c] = "vid_fetch"
  /\ IF alive[c]
     THEN hpc' = [hpc EXCEPT ![c] = "vid_send"] /\ UNCHANGED <<connected_clients, alive>>
     ELSE UFinally(c)
  /\ UNCHANGED <<calMsgs, calData, frameMsgs, sentFrames, UQuiet>>

\* lines 108-111: the send returns and the handler reads the next message
UVidSendDone(c) ==
  /\ hpc[c] = "vid_send"
  /\ IF alive[c]
     THEN hpc' = [hpc EXCEPT ![c] = "recv"] /\ UNCHANGED <<connected_clients, alive>>
     ELSE UFinally(c)
  /\ UNCHANGED <<calMsgs, calData, frameMsgs, sentFrames, UQuiet>>

UtilsNext ==
  \/ \E c \in Clients : UAccept(c)
  \/ \E c \in Clients : URecvGetVideoUrl(c)
  \/ \E c \in Clients : UVideoFetched(c)
  \/ \E c \in Clients : UVidSendDone(c)
  \/ \E c \in Clients : UCalSendDone(c)
  \/ \E c \in Clients : UHandlerClosed(c)
  \/ \E c \in Clients : URecvMalformed(c)
  \/ \E c \in Clients : URecvStartStream(c)
  \/ \E c \in Clients : UStreamTick(c)
  \/ \E c \in Clients : UStreamSent(c)
  \/ \E c \in Clients : ClientClose(c)
  \/ CapCheck
  \/ CapRead
  \/ CapMissWake
  \/ CapHand
  \/ CapHandRaises
  \/ CapBall
  \/ CapBallRaises
  \/ CapEncode

SpecUtils == UtilsInit /\ [][UtilsNext]_vars

\* ------------------------------------------------ claims on SpecUtils

\* where a handler is while it can take up the next control message of its
\* connection: waiting in the message loop, or answering a get_video_url
MessageLoopPcs == {"recv", "vid_fetch", "vid_send"}
\* a subscriber that has been sent a frame and whose connection is still up
Streaming(c) == c \in connected_clients /\ alive[c] /\ frameMsgs[c] > 0

\* C37: while a subscriber is streaming, its handler still processes its
\* control messages: the handler is in its message loop, where a
\* get_video_url is read and answered with one video_url, beside the send loop
C37_StreamingHandlerStillReads ==
  \A c \in Clients : Streaming(c) => hpc[c] \in MessageLoopPcs

\* the part that holds where the send loop is a task of its own (on
\* SpecSession): a get_video_url taken up while the send loop is live is
\* answered by one send and the loop is not touched by any of the three steps
C37_AnsweredBesideLiveLoop ==
  [][\A c \in Clients :
       /\ hpc[c] = "vid_fetch" => hpc'[c] \in {"vid_fetch", "vid_send", "done"}
       /\ hpc[c] = "vid_send" => hpc'[c] \in {"vid_send", "recv", "done"}
       /\ hpc'[c] = "vid_send" => hpc[c] \in {"vid_fetch", "vid_send"}
       /\ (<<hpc[c], hpc'[c]>> \in {<<"recv", "vid_fetch">>, <<"vid_fetch", "vid_send">>,
                                    <<"vid_send", "recv">>}) => streams'[c] = streams[c]]_vars
\* a get_video_url is being answered while the send loop of the subscriber runs
C37_AnsweringWhileStreaming ==
  \E c \in Clients : hpc[c] = "vid_send" /\ alive[c] /\ InLoop(c) /\ frameMsgs[c] > 0

\* the three fields as they stand when iteration n of the capture loop ends
EndOfIteration(n) ==
  [encoded_frame |-> n,
   hands |-> n - (n % HAND_TRACKING_SKIP),
   balls |-> n - (n % BALL_TRACKING_SKIP)]

\* C12: the (payload, hands, balls) triple of every `frame` message is the
\* triple as it stood at the end of one iteration of the capture loop.
C12_NoTornSnapshot ==
  \A c \in Clients : \A k \in DOMAIN sentFrames[c] :
    \E n \in 1..MaxTicks : sentFrames[c][k] = EndOfIteration(n)

\* C13: the end of a pacing sleep of an open connection sends exactly one
\* `frame`, carrying the latest state as it is then, whether or not it changed
\* since the last send; frames are sent one at a time and only by a pass of the
\* loop, and a send is followed by the pacing sleep.
C13_OneFramePerInterval ==
  [][\A c \in Clients :
       /\ (hpc[c] = "sleep_pace" /\ hpc'[c] # "sleep_pace" /\ alive[c])
          => /\ hpc'[c] = "frame_send"
             /\ frameMsgs'[c] = frameMsgs[c] + 1
             /\ sentFrames'[c] = Append(sentFrames[c], get_latest_frame_data)
       /\ frameMsgs'[c] # frameMsgs[c]
          => /\ frameMsgs'[c] = frameMsgs[c] + 1
             /\ hpc[c] \in {"recv", "sleep_nopayload", "sleep_pace"}
             /\ hpc'[c] = "frame_send"
       /\ (hpc[c] = "frame_send" /\ hpc'[c] # "frame_send")
          => /\ hpc'[c] \in {"sleep_pace", "done"}
             /\ frameMsgs'[c] = frameMsgs[c]]_vars

\* one subscriber was sent the same payload twice (nothing was published
\* between its sends), another one payloads 1 and 3 (two were published)
C13_Witness ==
  \E c, d \in Clients :
    /\ Len(sentFrames[c]) = 2
    /\ sentFrames[c][1] = sentFrames[c][2]
    /\ Len(sentFrames[d]) = 2
    /\ sentFrames[d][1].encoded_frame = 1
    /\ sentFrames[d][2].encoded_frame = 3

\* C19: the capture thread is never ended by an exception of a detector.
C19_CaptureLoopSurvives == cappc # "dead"

\* C20: an iteration in which the camera returns no frame leaves the frame
\* counter, the payload, the hand data and the ball data as they are, runs no
\* tracker and no encoder, and is followed by the next test of the loop.
C20_MissChangesNothing ==
  [][/\ (cappc = "read" /\ cappc' # "hand")
        => UNCHANGED <<frame_counter, latest_encoded_frame, latest_hand_data,
                       latest_ball_data>>
     /\ cappc = "miss_sleep"
        => /\ cappc' \in {"miss_sleep", "check"}
           /\ UNCHANGED <<frame_counter, latest_encoded_frame, latest_hand_data,
                          latest_ball_data>>]_vars

\* the read of a third frame failed after two frames were processed
C20_Witness ==
  /\ cappc = "miss_sleep"
  /\ frame_counter = 2 /\ latest_encoded_frame = 2
  /\ latest_hand_data = 2 /\ latest_ball_data = 0

\* C25: no `frame` message is sent without a payload; while there is no
\* payload a pass of the stream loop sends nothing and the loop stays in its
\* short sleep, from which it tries again.
C25_NoFrameWithoutPayload ==
  /\ [](\A c \in Clients : \A k \in DOMAIN sentFrames[c] :
          sentFrames[c][k].encoded_frame # 0)
  /\ [][latest_encoded_frame = 0 =>
          \A c \in Clients :
            /\ frameMsgs'[c] = frameMsgs[c]
            /\ sentFrames'[c] = sentFrames[c]
            /\ (hpc[c] = "sleep_nopayload" => hpc'[c] = "sleep_nopayload")
            /\ (hpc[c] = "recv" /\ hpc'[c] # "recv")
                 => hpc'[c] \in {"sleep_nopayload", "vid_fetch", "done"}]_vars

\* the first frame is acquired but not encoded yet: one subscriber skips its
\* ticks, the other has not asked for the stream
C25_Witness ==
  \E c \in Clients :
    /\ hpc[c] = "sleep_nopayload" /\ alive[c]
    /\ frame_counter = 1 /\ latest_encoded_frame = 0
    /\ frameMsgs[c] = 0

\* =========================================================================
\* HandTracker.process on the answers of the detector
\* =========================================================================
MAX_NUM_HANDS == 2
MaxLandmarks == 2    \* landmarks of one reported hand

SeqsUpTo(S, n) == UNION {[1..k -> S] : k \in 0..n}
HandLabels == {"Right", "Left", "Other"}
LandmarkCoords == {0, 2}
\* the hands the detector may report: up to MaxLandmarks landmarks, listed in
\* increasing order (a hand is used through its list and its mean only)
Hands ==
  {h \in SeqsUpTo(LandmarkCoords, MaxLandmarks) :
     \A i, j \in DOMAIN h : i < j => h[i] < h[j]}

HandsInit ==
  /\ ServerInit /\ cal_file = NoFile
  /\ BallIdle /\ SmoothIdle /\ EncIdle
  /\ hand_impl \in {"utils", "tasks"}
  /\ hand_enabled \in BOOLEAN
  /\ multi_hand_landmarks = <<>>
  /\ multi_handedness = <<>>
  /\ hand_data = empty_hand_data
  /\ hand_raised = FALSE

\* frame_processor.py 58: self.latest_hand_data = self.hand_tracker.process(frame);
\* nothing is assigned when process raises
HandProcess ==
  /\ \E hands \in SeqsUpTo(Hands, MAX_NUM_HANDS),
        labels \in SeqsUpTo(HandLabels, MAX_NUM_HANDS) :
       LET r == IF hand_impl = "utils"
                THEN process_utils(hand_enabled, hands, labels)
                ELSE process_tasks(hand_enabled, hands, labels)
       IN /\ multi_hand_landmarks' = hands
          /\ multi_handedness' = labels
          /\ hand_raised' = r.raised
          /\ hand_data' = IF r.raised THEN hand_data ELSE r.data
  /\ UNCHANGED <<hand_impl, hand_enabled, frame_counter, latest_encoded_frame, trackVars,
                 ballVars, smoothVars, encVars, handlerVars, connVars, calVars, bcastVars, wireVars, histVars>>

SpecHands == HandsInit /\ [][HandProcess]_vars

\* C14: the hand data has exactly the sides left and right, and on each side
\* there are landmarks if and only if the side is detected.
C14_TwoSidesLandmarksIffDetected ==
  /\ DOMAIN hand_data = {"left", "right"}
  /\ \A side \in DOMAIN hand_data :
       DOMAIN hand_data[side] = {"detected", "position", "landmarks"}
       /\ (hand_data[side].landmarks # <<>> <=> hand_data[side].detected)

\* two hands, both labelled Right: the second one is the right hand, no left
\* hand is reported
C14_Witness ==
  /\ hand_enabled /\ ~hand_raised
  /\ multi_hand_landmarks = << <<0>>, <<0, 2>> >>
  /\ multi_handedness = <<"Right", "Right">>
  /\ hand_data["right"].detected /\ hand_data["right"].landmarks = <<0, 2>>
  /\ hand_data["left"] = NoHand

\* the side a reported hand is filed under: 'Right' is the right hand, any
\* other label the left hand
SideOf(label) == IF label = "Right" THEN "right" ELSE "left"

\* the hands process pairs with a label, by side
PairsOf(side) ==
  {k \in 1..Min(Len(multi_hand_landmarks), Len(multi_handedness)) :
     SideOf(multi_handedness[k]) = side}

Last(S) == CHOOSE k \in S : \A j \in S : j <= k

\* C32: of the hands the detector reports, each side keeps the last one in
\* the detector's order that maps to it, with all its landmarks and with the
\* arithmetic mean of their coordinates as position; a side no reported hand
\* maps to is {detected: false, position: origin, landmarks: empty}.
C32_LastHandPerSideWithMeanPosition ==
  (hand_enabled /\ ~hand_raised) =>
    \A side \in {"left", "right"} :
      IF PairsOf(side) = {}
      THEN hand_data[side] = [detected |-> FALSE, position |-> 0, landmarks |-> <<>>]
      ELSE LET hand == multi_hand_landmarks[Last(PairsOf(side))]
           IN /\ hand_data[side].detected
              /\ hand_data[side].landmarks = hand
              /\ hand_data[side].position * Len(hand) = SumSeq(hand)

\* two hands labelled Right: the second one is kept, at the mean of its
\* landmarks 0 and 2, and there is no left hand
C32_Witness ==
  /\ hand_enabled /\ ~hand_raised
  /\ multi_hand_landmarks = << <<2>>, <<0, 2>> >>
  /\ multi_handedness = <<"Right", "Right">>
  /\ hand_data["right"] = [detected |-> TRUE, position |-> 1, landmarks |-> <<0, 2>>]
  /\ hand_data["left"] = NoHand

\* ---------------------------------------------------------------------
\* BallTracker.detect (src/utils/ball_tracking.py), one frame.
\* The frame is given by what findContours returns for each ball's mask:
\* a sequence of contours in the order found, each with its contourArea and
\* the radius of its minimum enclosing circle. contours[k] belongs to ball
\* id k - 1, and Len(contours) is num_balls.
\* ---------------------------------------------------------------------
MaxBalls == 2        \* num_balls
MaxContours == 2     \* contours of one mask
MaxRaise == 1        \* how far MAX_BALL_RADIUS is raised

MIN_BALL_RADIUS == 5
MAX_BALL_RADIUS == 100
MIN_BALL_AREA == 50

ContourKinds ==
  [area : {MIN_BALL_AREA, MIN_BALL_AREA + 1, MIN_BALL_AREA + 2},
   radius : {MIN_BALL_RADIUS, MIN_BALL_RADIUS + 1, MAX_BALL_RADIUS}]

AreaPasses(area, min_area) == area > min_area
RadiusPasses(r, min_r, max_r) == min_r < r /\ r < max_r
ContourPasses(c, min_area, min_r, max_r) ==
  AreaPasses(c.area, min_area) /\ RadiusPasses(c.radius, min_r, max_r)

\* the first of the largest contours that pass, when one passes
LargestPassing(cs) ==
  LET ok(c) == ContourPasses(c, MIN_BALL_AREA, MIN_BALL_RADIUS, MAX_BALL_RADIUS)
      among == IF \E k \in 1..Len(cs) : ok(cs[k]) THEN SelectSeq(cs, ok) ELSE cs
  IN among[CHOOSE k \in 1..Len(among) :
             /\ \A j \in 1..Len(among) : among[j].area <= among[k].area
             /\ \A j \in 1..(k - 1) : among[j].area < among[k].area]

\* max(contours, key=cv2.contourArea): the first contour of the largest area
Largest(cs) ==
  cs[CHOOSE k \in 1..Len(cs) :
       /\ \A j \in 1..Len(cs) : cs[j].area <= cs[k].area
       /\ \A j \in 1..(k - 1) : cs[j].area < cs[k].area]

\* the loop of detect under the given thresholds; x and y are left out
detect_with(masks, min_area, min_r, max_r) ==
  {[id |-> k - 1, radius |-> Largest(masks[k]).radius] :
     k \in {i \in 1..Len(masks) :
              /\ masks[i] # <<>>
              /\ ContourPasses(Largest(masks[i]), min_area, min_r, max_r)}}

\* a ball is reported when any contour of its mask passes
detect_any_contour(masks) ==
  {[id |-> k - 1, radius |-> LargestPassing(masks[k]).radius] :
     k \in {i \in 1..Len(masks) :
              \E m \in 1..Len(masks[i]) :
                ContourPasses(masks[i][m], MIN_BALL_AREA, MIN_BALL_RADIUS, MAX_BALL_RADIUS)}}

detect(masks) == detect_with(masks, MIN_BALL_AREA, MIN_BALL_RADIUS, MAX_BALL_RADIUS)

\* a detect without its first test
detect_frame_unguarded(enabled, masks) == detect(masks)
\* ball_tracking.py 51-52: if not self.enabled or self.num_balls == 0: return []
detect_frame(enabled, masks) ==
  IF ~enabled \/ Len(masks) = 0 THEN {} ELSE detect(masks)

BallsInit ==
  /\ ServerInit /\ cal_file = NoFile
  /\ HandIdle /\ SmoothIdle /\ EncIdle
  /\ ball_enabled \in BOOLEAN
  /\ contours \in SeqsUpTo(SeqsUpTo(ContourKinds, MaxContours), MaxBalls)
  /\ detected = {}
  /\ detect_done = FALSE

\* frame_processor.py 62: self.latest_ball_data = self.ball_tracker.detect(frame)
Detect ==
  /\ ~detect_done
  /\ detected' = detect_frame(ball_enabled, contours)
  /\ detect_done' = TRUE
  /\ UNCHANGED <<ball_enabled, contours, handVars, smoothVars, encVars, frame_counter, latest_encoded_frame,
                 trackVars, handlerVars, connVars, calVars, bcastVars, wireVars, histVars>>

SpecBalls == BallsInit /\ [][Detect]_vars

DetectedIds == {d.id : d \in detected}

\* C15: with ball tracking enabled, a ball id is reported if and only if its mask has a contour and the
\* first contour of the largest area has area > MIN_BALL_AREA and a radius
\* strictly between MIN_BALL_RADIUS and MAX_BALL_RADIUS; smaller contours
\* of the mask do not matter. Nothing else is reported.
C15_LargestContourDecides ==
  (detect_done /\ ball_enabled) =>
    /\ DetectedIds \subseteq 0..(Len(contours) - 1)
    /\ \A i \in 0..(Len(contours) - 1) :
         LET cs == contours[i + 1]
         IN i \in DetectedIds <=>
              /\ Len(cs) >= 1
              /\ \E m \in 1..Len(cs) :
                   /\ \A j \in 1..Len(cs) : cs[j].area <= cs[m].area
                   /\ \A j \in 1..(m - 1) : cs[j].area < cs[m].area
                   /\ cs[m].area > MIN_BALL_AREA
                   /\ MIN_BALL_RADIUS < cs[m].radius
                   /\ cs[m].radius < MAX_BALL_RADIUS

\* the largest contour is too wide, a smaller one would pass: no ball
C15_Witness ==
  /\ detect_done /\ ball_enabled
  /\ Len(contours) >= 1
  /\ contours[1] = <<[area |-> MIN_BALL_AREA + 2, radius |-> MAX_BALL_RADIUS],
                     [area |-> MIN_BALL_AREA + 1, radius |-> MIN_BALL_RADIUS + 1]>>
  /\ 0 \notin DetectedIds

\* C16: every ball id detected in a frame under the configured thresholds is
\* also detected in that frame with MIN_BALL_AREA lowered to 0 and
\* MAX_BALL_RADIUS raised.
C16_RelaxedKeepsDetections ==
  detect_done =>
    \A raise \in 0..MaxRaise :
      DetectedIds \subseteq
        {d.id : d \in detect_with(contours, 0, MIN_BALL_RADIUS, MAX_BALL_RADIUS + raise)}

\* ball 0 is detected either way, ball 1 only under the relaxed thresholds
C16_Witness ==
  /\ detect_done /\ ball_enabled
  /\ contours = << <<[area |-> MIN_BALL_AREA + 1, radius |-> MIN_BALL_RADIUS + 1]>>,
                   <<[area |-> MIN_BALL_AREA, radius |-> MAX_BALL_RADIUS]>> >>
  /\ DetectedIds = {0}
  /\ {d.id : d \in detect_with(contours, 0, MIN_BALL_RADIUS, MAX_BALL_RADIUS + MaxRaise)} = {0, 1}

\* C30: a returned ball list has at most one detection per ball id, every id
\* in it is one of 0 .. num_balls - 1, and it is empty when ball tracking is
\* disabled or num_balls is 0.
C30_OnePerIdInRange ==
  detect_done =>
    /\ \A d1, d2 \in detected : d1.id = d2.id => d1 = d2
    /\ DetectedIds \subseteq 0..(Len(contours) - 1)
    /\ (~ball_enabled \/ Len(contours) = 0) => detected = {}

\* tracking is disabled and the frame shows a ball that would pass
C30_Witness ==
  /\ detect_done /\ ~ball_enabled
  /\ contours = << <<[area |-> MIN_BALL_AREA + 1, radius |-> MIN_BALL_RADIUS + 1]>> >>
  /\ detected = {}

\* ---------------------------------------------------------------------
\* Position smoothing of detect_balls (src/server.py 142-148) for one ball
\* and one coordinate; x and y are smoothed by the same expression.
\* BallTracker.detect of src/utils reports the raw position (no smoothing).
\* Positions are exact decimal fractions: the integer p stands for p / Unit,
\* and Unit is large enough that every product below is exact.
\* ---------------------------------------------------------------------
MaxSame == 6         \* accepted frames with the same raw position

position_smoothing == 7     \* tenths: 0.7
POSITION_THRESHOLD == 2     \* hundredths: 0.02

RECURSIVE Pow10(_)
Pow10(n) == IF n = 0 THEN 1 ELSE 10 * Pow10(n - 1)
Unit == Pow10(MaxSame + 1)

\* normalised positions x / w: 0.0, 0.1, ..., 1.0
Positions == {g * (Unit \div 10) : g \in 0..10}

Abs(n) == IF n < 0 THEN -n ELSE n

\* the weights the other way round
SmoothedTowardsRaw(last, xn) ==
  IF last.stored
  THEN (last.x * (10 - position_smoothing) + xn * position_smoothing) \div 10
  ELSE xn

\* server.py 144-146: lx*position_smoothing + xn*(1-position_smoothing) when
\* the ball has a stored position, xn otherwise
Smoothed(last, xn) ==
  IF last.stored
  THEN (last.x * position_smoothing + xn * (10 - position_smoothing)) \div 10
  ELSE xn

SmoothInit ==
  /\ ServerInit /\ cal_file = NoFile
  /\ HandIdle /\ BallIdle /\ EncIdle
  /\ raw_position \in Positions
  /\ last_ball_position \in {NoPosition} \cup [stored : {TRUE}, x : Positions]
  /\ start_position = last_ball_position
  /\ same_frames = 0
  /\ ball_impl = "server"
  /\ ball_inputs = <<>>
  /\ ball_outputs = <<>>

\* one accepted frame with the ball at raw_position: server.py 143-148; the
\* position reported in the detection is the one stored
AcceptedFrame ==
  /\ same_frames < MaxSame
  /\ last_ball_position' = [stored |-> TRUE, x |-> Smoothed(last_ball_position, raw_position)]
  /\ same_frames' = same_frames + 1
  /\ UNCHANGED <<raw_position, start_position, seqVars, handVars, ballVars, encVars, frame_counter,
                 latest_encoded_frame, trackVars, handlerVars, connVars, calVars, bcastVars,
                 wireVars, histVars>>

SpecSmooth == SmoothInit /\ [][AcceptedFrame]_vars

Distance == Abs(last_ball_position.x - raw_position)

\* C17 as stated, with the program's own position tolerance as epsilon:
\* after five or more accepted frames with the same raw position the
\* reported position is within POSITION_THRESHOLD of the raw position.
C17_WithinThresholdAfterFive ==
  same_frames >= 5 => Distance <= POSITION_THRESHOLD * (Unit \div 100)

\* C17, amended: each accepted frame with the same raw position multiplies
\* the distance between the reported and the raw position by
\* position_smoothing (0.7), so after five or more such frames the distance
\* is at most 0.17 of the distance of the stored position it started from;
\* a ball without a stored position is reported at the raw position.
C17_DistanceShrinksBySmoothing ==
  /\ [](same_frames >= 1 /\ ~start_position.stored => Distance = 0)
  /\ [](same_frames >= 5 /\ start_position.stored =>
          Distance <= 17 * (Abs(start_position.x - raw_position) \div 100))
  /\ [][same_frames' = same_frames + 1 /\ last_ball_position.stored =>
          10 * Abs(last_ball_position'.x - raw_position) = position_smoothing * Distance]_vars

\* five frames from the far end: still further away than the threshold
C17_Witness ==
  /\ same_frames = 5
  /\ start_position = [stored |-> TRUE, x |-> Unit]
  /\ raw_position = 0
  /\ Distance = 16807 * (Unit \div 100000)

\* ---------------------------------------------------------------------
\* save() in one run and load_last() in the next (AsyncCalibrator of
\* src/src/python/startup_calibration_async.py 47-70; StartupCalibrator of
\* src/startup_calibration.py 33-47 has the same two bodies).  The run that
\* saves is at the end of calibrate_balls_interactive with any profile a
\* calibrator can hold; the next run builds a fresh calibrator with the same
\* num_balls.
\* ---------------------------------------------------------------------
RangeNames == {"preset", "file", "picked"}

\* hsv_ranges of a calibrator: the ids below num_balls, and possibly a
\* further id that came from a file written for more balls
RangeDicts == [0..(NumBalls - 1) -> RangeNames] \cup [0..MaxBallId -> RangeNames]

ProfileInit ==
  /\ ServerRest /\ ToolsIdle
  /\ calibrator \in [exists : {TRUE}, camera_settings : {"device", "file"},
                      hsv_ranges : RangeDicts, user_choice : {"calibrate"},
                      choice_received : {TRUE}]
  /\ cal_file \in {NoFile, SavedFile}
  /\ calpc = "calibrating"

ProfileQuiet == <<handlerVars, connVars, main_settings, calibration_ready_event, mainpc,
                  bcastVars, captureVars, wireVars, histVars>>

\* line 186: self.save()
ProfileSave ==
  /\ calpc = "calibrating"
  /\ cal_file' = save(calibrator)
  /\ calpc' = "done"
  /\ UNCHANGED <<calibrator, ProfileQuiet>>

\* the server is started again: __init__ of a fresh calibrator, with
\* load_last at its end (lines 14-45)
ProfileLoad ==
  /\ calpc = "done"
  /\ calibrator' = NewCalibrator(cal_file)
  /\ calpc' = "wait_choice"
  /\ UNCHANGED <<cal_file, ProfileQuiet>>

ProfileNext == ProfileSave \/ ProfileLoad

SpecProfile == ProfileInit /\ [][ProfileNext]_vars

\* C35: save() followed by load_last() in a fresh calibrator with the same
\* number of balls gives back camera_settings and hsv_ranges as they were
\* saved, under the same integer ball ids; in the file the ids are strings.
C35_SaveLoadRoundTrip ==
  /\ [][calpc = "done" /\ calpc' = "wait_choice" =>
          get_settings(calibrator') = get_settings(calibrator)]_vars
  /\ [](calpc = "wait_choice" => DOMAIN calibrator.hsv_ranges \subseteq 0..MaxBallId)
  /\ [](calpc \in {"done", "wait_choice"} =>
          DOMAIN cal_file.hsv_ranges \subseteq {Decimal[i] : i \in DOMAIN Decimal})

\* a profile with three different ranges came back from the file
C35_Witness ==
  /\ calpc = "wait_choice"
  /\ cal_file.hsv_ranges = [key \in {"0", "1", "2"} |->
                              IF key = "0" THEN "picked" ELSE IF key = "1" THEN "preset" ELSE "file"]
  /\ calibrator.hsv_ranges = (0 :> "picked") @@ (1 :> "preset") @@ (2 :> "file")
  /\ calibrator.camera_settings = "device"

\* ---------------------------------------------------------------------
\* One ball over consecutive frames, in detect_balls of src/server.py and in
\* BallTracker.detect of src/utils/ball_tracking.py (the tracker the frame
\* processor of src/utils calls).  A frame either shows the ball with an
\* accepted contour at a normalised position or does not.
\* ---------------------------------------------------------------------
MaxBallFrames == 3   \* consecutive frames

NoBall == [present |-> FALSE, x |-> 0]
Ball(xn) == [present |-> TRUE, x |-> xn]

\* server.py 143-148: xn after smoothing; ball_tracking.py 70-72: x / w
Center(impl, last, xn) == IF impl = "server" THEN Smoothed(last, xn) ELSE xn

\* server.py 147: last_ball_positions[i] = (xn, yn); BallTracker keeps no
\* position between calls
StoredAfter(impl, last, center) ==
  IF impl = "server" THEN [stored |-> TRUE, x |-> center] ELSE last

FramesInit ==
  /\ ServerInit /\ cal_file = NoFile
  /\ HandIdle /\ BallIdle /\ EncIdle
  /\ raw_position = 0
  /\ last_ball_position = NoPosition
  /\ start_position = NoPosition
  /\ same_frames = 0
  /\ ball_impl \in {"server", "utils"}
  /\ ball_inputs = <<>>
  /\ ball_outputs = <<>>

\* server.py 136-153, ball_tracking.py 64-75: one call for a frame without an
\* accepted contour of the ball; nothing is appended for it, nothing is stored
FrameWithoutBall ==
  /\ Len(ball_inputs) < MaxBallFrames
  /\ ball_inputs' = Append(ball_inputs, NoBall)
  /\ ball_outputs' = Append(ball_outputs, NoBall)
  /\ UNCHANGED <<raw_position, last_ball_position, start_position, same_frames, ball_impl,
                 handVars, ballVars, encVars, frame_counter, latest_encoded_frame, trackVars,
                 handlerVars, connVars, calVars, bcastVars, wireVars, histVars>>

\* server.py 142-148, ball_tracking.py 69-75: one call for a frame with an
\* accepted contour at xn
FrameWithBall(xn) ==
  /\ Len(ball_inputs) < MaxBallFrames
  /\ raw_position' = xn
  /\ ball_inputs' = Append(ball_inputs, Ball(xn))
  /\ LET center == Center(ball_impl, last_ball_position, xn)
     IN /\ ball_outputs' = Append(ball_outputs, Ball(center))
        /\ last_ball_position' = StoredAfter(ball_impl, last_ball_position, center)
  /\ UNCHANGED <<start_position, same_frames, ball_impl,
                 handVars, ballVars, encVars, frame_counter, latest_encoded_frame, trackVars,
                 handlerVars, connVars, calVars, bcastVars, wireVars, histVars>>

FramesNext ==
  \/ FrameWithoutBall
  \/ \E xn \in Positions : FrameWithBall(xn)

SpecFrames == FramesInit /\ [][FramesNext]_vars

\* the position the ball was last reported at in frames 1..k, if any
RECURSIVE LastAccepted(_)
LastAccepted(k) ==
  IF k = 0 THEN NoPosition
  ELSE IF ball_outputs[k].present THEN [stored |-> TRUE, x |-> ball_outputs[k].x]
  ELSE LastAccepted(k - 1)

\* what the claim has frame k report
SmoothedReport(k) ==
  IF ball_inputs[k].present
  THEN Ball(Smoothed(LastAccepted(k - 1), ball_inputs[k].x))
  ELSE NoBall

\* C31: in every frame the ball is reported at its normalised center smoothed
\* against the position it was last reported at (unsmoothed when it was never
\* reported before), a frame without the ball reports nothing for it, and the
\* stored position is the last reported one, so it survives a gap.
C31_SmoothedAgainstLastAccepted ==
  \A k \in DOMAIN ball_outputs : ball_outputs[k] = SmoothedReport(k)

\* the part of C31 that holds: detect_balls of server.py reports and stores as
\* the claim says
C31_ServerSmooths ==
  ball_impl = "server" =>
    /\ \A k \in DOMAIN ball_outputs : ball_outputs[k] = SmoothedReport(k)
    /\ last_ball_position = LastAccepted(Len(ball_outputs))

\* detect_balls: the ball at 0.2, a frame without it, the ball at 0.8,
\* reported at 0.7 * 0.2 + 0.3 * 0.8
C31_ServerWitness ==
  /\ ball_impl = "server"
  /\ ball_inputs = <<Ball(2 * (Unit \div 10)), NoBall, Ball(8 * (Unit \div 10))>>
  /\ ball_outputs[3] = Ball(38 * (Unit \div 100))

\* ---------------------------------------------------------------------
\* The encoders of src/src/python/nvenc_encoder.py. nvenc_encoder says
\* whether self.encoder holds a hardware encoder; encoded_payloads lists
\* what the encode calls returned, in order: "h264" (a hardware packet),
\* "empty" (b'', the hardware buffered the frame) or "jpeg". encode_errors
\* counts the "[NVENC] Encode error" lines printed.
\* ---------------------------------------------------------------------
MaxEncodes == 5      \* encode calls

\* create_encoder (138-156) returns an NVENCEncoder only when its hardware
\* encoder was created, a JPEGEncoder otherwise; NVENCEncoder.__init__
\* (26-43) on its own leaves use_nvenc False and encoder None when NVENC is
\* not available or _init_nvenc raises.
EncInit ==
  /\ ServerInit /\ cal_file = NoFile
  /\ HandIdle /\ BallIdle /\ SmoothIdle
  /\ \/ encoder_class = "JPEGEncoder" /\ use_nvenc = FALSE /\ nvenc_encoder = FALSE
     \/ encoder_class = "NVENCEncoder" /\ use_nvenc = TRUE /\ nvenc_encoder = TRUE
     \/ encoder_class = "NVENCEncoder" /\ use_nvenc = FALSE /\ nvenc_encoder = FALSE
  /\ encode_errors = 0
  /\ encoded_payloads = <<>>

EncQuiet == <<handVars, ballVars, smoothVars, frame_counter, latest_encoded_frame, trackVars,
              handlerVars, connVars, calVars, bcastVars, wireVars, histVars>>

\* use_nvenc after the except branch of encode, had it been left alone
AfterEncodeErrorKept(u) == u
\* nvenc_encoder.py 78: self.use_nvenc = False
AfterEncodeError(u) == FALSE

\* encode (63-82) with _encode_nvenc (84-99) and _encode_jpeg (101-104);
\* hw is what self.encoder.Encode does when it is called
Encode ==
  /\ Len(encoded_payloads) < MaxEncodes
  /\ \E hw \in {"packet", "buffered", "raises"} :
       IF encoder_class = "NVENCEncoder" /\ use_nvenc /\ nvenc_encoder
       THEN IF hw = "raises"
            THEN /\ encode_errors' = encode_errors + 1
                 /\ use_nvenc' = AfterEncodeError(use_nvenc)
                 /\ encoded_payloads' = Append(encoded_payloads, "jpeg")
            ELSE /\ encoded_payloads' =
                      Append(encoded_payloads, IF hw = "packet" THEN "h264" ELSE "empty")
                 /\ UNCHANGED <<encode_errors, use_nvenc>>
       ELSE /\ encoded_payloads' = Append(encoded_payloads, "jpeg")
            /\ UNCHANGED <<encode_errors, use_nvenc>>
  /\ UNCHANGED <<encoder_class, nvenc_encoder, EncQuiet>>

\* NVENCEncoder.release (110-117): self.encoder = None
Release ==
  /\ encoder_class = "NVENCEncoder" /\ nvenc_encoder
  /\ nvenc_encoder' = FALSE
  /\ UNCHANGED <<encoder_class, use_nvenc, encode_errors, encoded_payloads, EncQuiet>>

EncNext == Encode \/ Release

SpecEncoder == EncInit /\ [][EncNext]_vars

\* C18: the hardware encoder fails at most once in a run and the failure is
\* printed once; from then on use_nvenc is false, and the failing call and
\* every later encode call return a JPEG payload.
C18_FallbackIsPermanent ==
  /\ [](encode_errors <= 1)
  /\ [](encode_errors >= 1 => ~use_nvenc)
  /\ [][encode_errors' >= 1 /\ Len(encoded_payloads') = Len(encoded_payloads) + 1 =>
          encoded_payloads'[Len(encoded_payloads')] = "jpeg"]_vars

\* the hardware fails on the third call; calls three to five return JPEG
C18_Witness ==
  /\ encoder_class = "NVENCEncoder"
  /\ encode_errors = 1
  /\ ~use_nvenc /\ nvenc_encoder
  /\ encoded_payloads = <<"h264", "empty", "jpeg", "jpeg", "jpeg">>

\* =========================================================================
\* The capture thread of src/utils with the end of main(): the server runs
\* (state of UtilsInit), no client connects, and main's finally block stops
\* the frame processor and releases the camera.
\* =========================================================================
MaxIterations == 6   \* capture-loop iterations that acquire a frame

CapReadLong == CapReadUpTo(MaxIterations)

MainQuiet == <<handlerVars, connVars, calibrator, cal_file, calpc, main_settings,
               calibration_ready_event, bcastVars, frame_counter, latest_encoded_frame,
               cappc, latest_hand_data, latest_ball_data, toolVars, wireVars, histVars>>

\* utils/main.py 93-98, frame_processor.py 41: the wait of main ends, the
\* finally block calls stop(), which clears the flag
MainStop ==
  /\ mainpc = "forever"
  /\ running' = FALSE
  /\ mainpc' = "join"
  /\ UNCHANGED <<camera, MainQuiet>>

\* frame_processor.py 42-43: thread.join(timeout=1.0) returns when the thread
\* has ended or when the second is over; utils/main.py 99-101: the hand
\* tracker and the camera are released and main returns
MainRelease ==
  /\ mainpc = "join"
  /\ \E timed_out \in BOOLEAN : timed_out \/ cappc \in {"exited", "dead"}
  /\ camera' = "released"
  /\ mainpc' = "stopped"
  /\ UNCHANGED <<running, MainQuiet>>

CaptureNext ==
  \/ CapCheck
  \/ CapReadLong
  \/ CapMissWake
  \/ CapHand
  \/ CapHandRaises
  \/ CapBall
  \/ CapBallRaises
  \/ CapEncode
  \/ MainStop
  \/ MainRelease

SpecCapture == UtilsInit /\ [][CaptureNext]_vars

\* the thread is scheduled again and again, and its calls return
FairCapture ==
  /\ SpecCapture
  /\ WF_vars(CapCheck) /\ WF_vars(CapReadLong) /\ WF_vars(CapMissWake)
  /\ WF_vars(CapHand) /\ WF_vars(CapBall) /\ WF_vars(CapEncode)

\* the loop is between two iterations, or over
BetweenIterations == cappc \in {"check", "read", "miss_sleep", "exited"}

\* C26: in the iteration with frame counter c the hand tracker runs exactly
\* if c mod HAND_TRACKING_SKIP = 0 and the ball tracker exactly if c mod 3 = 0;
\* a tracker that does not run leaves its data as it was, and the data is not
\* touched by the rest of the iteration.
C26_CadenceAndCarryOver ==
  [][/\ (cappc = "hand" /\ cappc' = "ball") =>
          IF frame_counter % 2 = 0
          THEN latest_hand_data' = frame_counter
          ELSE latest_hand_data' = latest_hand_data
     /\ (cappc = "ball" /\ cappc' = "encode") =>
          IF frame_counter % 3 = 0
          THEN latest_ball_data' = frame_counter
          ELSE latest_ball_data' = latest_ball_data
     /\ ~(cappc = "hand" /\ cappc' = "ball") => latest_hand_data' = latest_hand_data
     /\ ~(cappc = "ball" /\ cappc' = "encode") => latest_ball_data' = latest_ball_data
     /\ (cappc = "hand" /\ cappc' = "dead") => frame_counter % 2 = 0
     /\ (cappc = "ball" /\ cappc' = "dead") => frame_counter % 3 = 0]_vars

\* iteration 5 ran no tracker: the hand data is that of iteration 4, the ball
\* data that of iteration 3
C26_Witness ==
  /\ cappc = "check"
  /\ frame_counter = 5 /\ latest_encoded_frame = 5
  /\ latest_hand_data = 4 /\ latest_ball_data = 3

\* C27 as stated: no iteration runs both the hand tracker and the ball tracker.
C27_NeverBothTrackers ==
  ~(cappc = "encode" /\ latest_hand_data = frame_counter /\ latest_ball_data = frame_counter)

\* C27, amended: an iteration runs both trackers exactly when its frame
\* counter is a multiple of 6.
C27_BothEverySixth ==
  cappc = "encode" =>
    ((latest_hand_data = frame_counter /\ latest_ball_data = frame_counter)
       <=> frame_counter % 6 = 0)

\* iteration 6 ran both
C27_Witness ==
  /\ cappc = "encode" /\ frame_counter = 6
  /\ latest_hand_data = 6 /\ latest_ball_data = 6

\* C28: whenever the loop is not in the middle of an iteration, the latest
\* payload is the encoding of the most recently acquired frame: every
\* iteration that acquired a frame has encoded it.
C28_EveryAcquiredFrameEncoded ==
  (BetweenIterations \/ cappc = "dead") => latest_encoded_frame = frame_counter

\* C29: once the flag is cleared the thread ends; it leaves the loop only at
\* the loop test, never in the middle of an iteration, and after the flag is
\* cleared the loop test starts no iteration.
C29_StopEndsTheLoop ==
  /\ ~running ~> cappc \in {"exited", "dead"}
  /\ [][/\ cappc' = "exited" => (cappc = "exited" \/ (cappc = "check" /\ ~running))
        /\ (cappc = "check" /\ ~running) => cappc' \in {"check", "exited"}]_vars

\* the camera never gave a frame, and the thread has ended
C29_Witness ==
  /\ cappc = "exited" /\ ~running
  /\ frame_counter = 0

\* =========================================================================
\* A whole run of main() of src/utils: the camera is initialised, the ball
\* tracker calibrates, the frame processor is started and clients are
\* served, until the wait of main is interrupted and its finally block runs.
\* =========================================================================
\* the start of main(): nothing is built yet
LifeInit ==
  /\ connected_clients = {}
  /\ first_connection = FALSE
  /\ calibration_settings = None
  /\ frame_processor = None
  /\ hpc = [c \in Clients |-> "idle"]
  /\ alive = [c \in Clients |-> TRUE]
  /\ streams = [c \in Clients |-> <<>>]
  /\ cal_file = SavedFile
  /\ calibrator = NoCalibrator
  /\ calpc = "none"
  /\ main_settings = None
  /\ calibration_ready_event = FALSE
  /\ mainpc = "init_camera"
  /\ bpc = "none"
  /\ bsnap = {}
  /\ bvisited = {}
  /\ bcur = 0
  /\ bdisc = {}
  /\ bmessage = NoProfile
  /\ frame_counter = 0
  /\ latest_encoded_frame = 0
  /\ cappc = "off"
  /\ running = FALSE
  /\ camera = "none"
  /\ latest_hand_data = 0
  /\ latest_ball_data = 0
  /\ reqMsgs = [c \in Clients |-> 0]
  /\ calMsgs = [c \in Clients |-> 0]
  /\ errMsgs = [c \in Clients |-> 0]
  /\ frameMsgs = [c \in Clients |-> 0]
  /\ calData = {}
  /\ acceptedWhen = [c \in Clients |-> "never"]
  /\ firstAccepted = 0
  /\ triggered = 0
  /\ firstChoice = None
  /\ branchTaken = None
  /\ lateStart = [c \in Clients |-> FALSE]
  /\ sentFrames = [c \in Clients |-> <<>>]
  /\ ToolsIdle

\* utils/main.py 47-49, camera.py 14-40: cv2.VideoCapture(...) gives a capture
\* object whether or not the device could be opened; initialize() does not
\* test isOpened(), the set and get calls on an unopened capture return
\* False and 0, and initialize() returns
MainInitCamera ==
  /\ mainpc = "init_camera"
  /\ camera' \in {"opened", "unopened"}
  /\ mainpc' = "calibrate"
  /\ UNCHANGED <<running, MainQuiet>>

\* utils/main.py 51-89: the ball tracker calibrates (startup_calibration.py:
\* every loop that reads the camera ends with `if not ret: break`), the frame
\* processor is started, the handler is built and the server listens
MainStartup ==
  /\ mainpc = "calibrate"
  /\ calibrator' = NewCalibrator(cal_file)
  /\ calpc' = "done"
  /\ calibration_settings' = "settings"
  /\ main_settings' = "settings"
  /\ frame_processor' = "started"
  /\ running' = TRUE
  /\ cappc' = "check"
  /\ mainpc' = "forever"
  /\ UNCHANGED <<connected_clients, first_connection, connVars, cal_file,
                 calibration_ready_event, bcastVars, frame_counter, latest_encoded_frame,
                 camera, latest_hand_data, latest_ball_data, toolVars, wireVars, histVars>>

\* the event loop runs tasks while main waits and between the return of main
\* and the cancellation of the remaining tasks; it is blocked while main is
\* inside its finally block (thread.join)
LoopRuns == mainpc \in {"forever", "stopped"}

Served(c) == hpc[c] \notin {"idle", "done"}

\* every handler task ends with CancelledError: finally, discard
CancelHandlers ==
  /\ connected_clients' = {c \in connected_clients : ~Served(c)}
  /\ hpc' = [c \in Clients |-> IF Served(c) THEN "done" ELSE hpc[c]]
  /\ alive' = [c \in Clients |-> IF Served(c) THEN FALSE ELSE alive[c]]

\* The interrupt as asyncio.run of Python 3.10 and older sees it: the loop is
\* left, every task is cancelled, and main's finally block runs
\* (utils/main.py 96-98, frame_processor.py 41) among the cancelled tasks.
MainStopCancelAll ==
  /\ mainpc = "forever"
  /\ CancelHandlers
  /\ running' = FALSE
  /\ mainpc' = "join"
  /\ UNCHANGED <<first_connection, calibration_settings, frame_processor, streams,
                 calibrator, cal_file, calpc, main_settings, calibration_ready_event,
                 bcastVars, frame_counter, latest_encoded_frame, cappc, camera,
                 latest_hand_data, latest_ball_data, toolVars, wireVars, histVars>>

\* asyncio.run after main has returned: the tasks that are left are cancelled
Teardown ==
  /\ mainpc = "stopped"
  /\ CancelHandlers
  /\ mainpc' = "closed"
  /\ UNCHANGED <<first_connection, calibration_settings, frame_processor, streams,
                 calibrator, cal_file, calpc, main_settings, calibration_ready_event,
                 bcastVars, captureVars, wireVars, histVars>>

LAccept(c) == mainpc = "forever" /\ UAccept(c)

LHandlerStep(c) ==
  /\ LoopRuns
  /\ \/ UCalSendDone(c)
     \/ UHandlerClosed(c)
     \/ URecvStartStream(c)
     \/ UStreamTick(c)
     \/ UStreamSent(c)

LifeNext ==
  \/ MainInitCamera
  \/ MainStartup
  \/ \E c \in Clients : LAccept(c)
  \/ \E c \in Clients : LHandlerStep(c)
  \/ \E c \in Clients : ClientClose(c)
  \/ CapCheck
  \/ CapRead
  \/ CapMissWake
  \/ CapHand
  \/ CapBall
  \/ CapEncode
  \/ MainStop
  \/ MainStopCancelAll
  \/ MainRelease
  \/ Teardown

SpecLife == LifeInit /\ [][LifeNext]_vars

\* C21: the camera is released only after the capture loop has been stopped
\* and every send loop has been cancelled: once the camera is released the
\* capture thread is not inside an iteration (it has exited or is about to
\* leave at the loop test) and no subscriber is still served.
C21_ReleaseComesLast ==
  camera = "released" =>
    /\ cappc \in {"off", "check", "exited", "dead"}
    /\ \A c \in Clients : ~Served(c)

\* C22: with a camera that could not be opened the server never calibrates,
\* never starts the capture loop and never accepts a connection.
C22_CameraFailureIsFatal ==
  camera = "unopened" =>
    /\ ~calibrator.exists
    /\ cappc = "off" /\ ~running
    /\ mainpc # "forever"
    /\ \A c \in Clients : hpc[c] = "idle"

====
